---- MODULE Spec2Model ----
(***************************************************************************)
(* PerpInfra: the sequenced event processor, the order book and matcher,   *)
(* the balance and position managers, the liquidation executor, the event  *)
(* producer and the ingest loop of main.rs.                                *)
(*                                                                         *)
(* Prices, balances and quantities are the i64 raw values of the source,   *)
(* drawn from small sets.  Prices and balances are scaled: one unit of the *)
(* model is 2500_00000000 raw units, so that the default mark price        *)
(* 50000_00000000 is 20 and the margin of one lot at 20x leverage is 1.    *)
(* Quantities are not scaled.  Timestamps, uuids of trades and ledger      *)
(* entries are not part of the state: no modelled decision reads them.     *)
(***************************************************************************)
EXTENDS Integers, Sequences, FiniteSets, TLC

VARIABLES
    last_sequence,      \* EventProcessor.last_sequence
    last_mark_price,    \* EventProcessor.last_mark_price
    halted,             \* EventProcessor.halted
    KILL_SWITCH,        \* crate::KILL_SWITCH (lib.rs), the process-global flag
    kill_switch,        \* main's KillSwitch.active, shared with the invariant monitor
    loop,               \* main's event loop: "running" or "stopped"
    accounts,           \* BalanceManager.accounts: UserId -> Account
    positions,          \* PositionManager.positions: UserId -> Position
    order_book,         \* the OrderBook held by the EventProcessor
    matcher_book,       \* the OrderBook owned by the Matcher
    queue,              \* LiquidationExecutor.queue (a bag of candidates, as a sequence)
    rl_count,           \* RateLimiter.timestamps.len()
    insurance_fund,     \* InsuranceFund.balance
    log,                \* the events sent to the topic by KafkaEventProducer.produce
    sequence_counter,   \* KafkaEventProducer.sequence_counter
    ev,                 \* header of the event of the last process_event call
    result,             \* what the last call returned
    calls,              \* number of calls made so far
    replay,             \* Replayer: next sequence to fetch and status
    incoming,           \* the order handed to the Matcher::match_order call just made
    matched,            \* the Vec<Trade> that call returned
    HLC,                \* the process-wide HybridLogicalClock: last_physical, last_logical
    threads,            \* the threads inside HybridLogicalClock::now: position and locals
    returned,           \* the Timestamps that now() has returned, in the order of return
    ticks,              \* number of runs of the background tasks so far
    circuit_breaker,    \* PriceCircuitBreaker: active, last_price (0 for None)
    locks,              \* the RwLocks around the core state: writer and readers of each
    snapshot_seq        \* main's channel of capacity 1 from the event loop to the snapshot task

coreVars == <<accounts, positions, order_book, matcher_book, last_mark_price>>
procVars == <<last_sequence, last_mark_price, halted, KILL_SWITCH, accounts, positions,
              order_book, matcher_book, queue, rl_count, insurance_fund, log,
              sequence_counter>>
vars == <<last_sequence, last_mark_price, halted, KILL_SWITCH, kill_switch, loop, accounts,
          positions, order_book, matcher_book, queue, rl_count, insurance_fund, log,
          sequence_counter, ev, result, calls, replay, incoming, matched, HLC, threads,
          returned, ticks, circuit_breaker, locks, snapshot_seq>>

(***************************************************************************)
(* Bounds of the model.                                                    *)
(***************************************************************************)
\* process_event calls (or order-book operations) in one behaviour
MaxCalls == 4
\* events a behaviour sends through KafkaEventProducer.produce
MaxLog == 3

(***************************************************************************)
(* Configuration and program constants.                                    *)
(***************************************************************************)
\* EventProcessor::new_with_dependencies: last_sequence: 0
InitialLastSequence == 0
\* EventProcessor::new_with_dependencies: Price::from_i64(50000_00000000), scaled
DefaultMarkPrice == 20
\* KafkaEventProducer::new: sequence_counter: AtomicU64::new(0)
InitialSequenceCounter == 0
\* BaseEvent::new: sequence: 0, "set by event log"
NewEventSequence == 0
\* RiskConfig.max_leverage (20.0), read through Balance::from_f64
max_leverage == 20
\* Matcher::calculate_order_margin: "Assuming 20x max leverage"
MatcherLeverage == 20
\* MarketConfig as ConfigLoader::load delivers it: tick_size (scaled), lot_size,
\* min_order_size, and a max_order_size small enough for the validator to refuse
\* an order of the model
tick_size == 20
lot_size == 1
min_order_size == 1
max_order_size == 2
\* FeeConfig.maker_fee_rate = 0.0002 and taker_fee_rate = 0.0005, as fractions
maker_fee_rate_num == 2
taker_fee_rate_num == 5
fee_rate_den == 10000

Users == {1, 2}
OrderIds == {1, 2}
Prices == {20, 40}
Sides == {"Buy", "Sell"}

(***************************************************************************)
(* Helpers.                                                                *)
(***************************************************************************)
Min(S) == CHOOSE x \in S : \A y \in S : x <= y
Max(S) == CHOOSE x \in S : \A y \in S : x >= y
Abs(x) == IF x < 0 THEN -x ELSE x
\* i64 division truncates toward zero
TruncDiv(a, b) == IF a >= 0 THEN a \div b ELSE -((-a) \div b)
EmptyMap == [x \in {} |-> 0]
MapPut(f, k, v) == [x \in (DOMAIN f) \cup {k} |-> IF x = k THEN v ELSE f[x]]
MapRemove(f, k) == [x \in (DOMAIN f) \ {k} |-> f[x]]
RECURSIVE SeqSum(_)
SeqSum(s) == IF s = <<>> THEN 0 ELSE Head(s) + SeqSum(Tail(s))
SelectSeqNot(s, id) == SelectSeq(s, LAMBDA o : o.order_id # id)

\* Balance::from_f64(value): `value as i64`, truncation of the fraction num/den
BalanceFromF64(num, den) == TruncDiv(num, den)

(***************************************************************************)
(* OrderBook (matching/order_book.rs).  A book is                          *)
(*   [bids, asks : price -> PriceLevel, orders : order_id -> Order]        *)
(* and a PriceLevel is [price, orders (the FIFO queue), total_quantity].   *)
(***************************************************************************)
NewOrderBook == [bids |-> EmptyMap, asks |-> EmptyMap, orders |-> EmptyMap]

Remaining(o) == o.quantity - o.filled

SideLevels(book, side) == IF side = "Buy" THEN book.bids ELSE book.asks

WithSideLevels(book, side, levels) ==
    IF side = "Buy" THEN [book EXCEPT !.bids = levels] ELSE [book EXCEPT !.asks = levels]

Opposite(side) == IF side = "Buy" THEN "Sell" ELSE "Buy"

\* add_order putting the order at the front of its level's queue
add_orderAtFront(book, order) ==
    IF order.order_id \in DOMAIN book.orders
    THEN [ok |-> FALSE, err |-> "DuplicateOrderId", book |-> book]
    ELSE LET levels == SideLevels(book, order.side)
             level  == IF order.price \in DOMAIN levels
                       THEN levels[order.price]
                       ELSE [price |-> order.price, orders |-> <<>>, total_quantity |-> 0]
             level2 == [level EXCEPT !.total_quantity = @ + Remaining(order),
                                     !.orders = <<order>> \o @]
             b2     == WithSideLevels(book, order.side, MapPut(levels, order.price, level2))
         IN [ok |-> TRUE, err |-> "None",
             book |-> [b2 EXCEPT !.orders = MapPut(@, order.order_id, order)]]

add_order(book, order) ==
    IF order.order_id \in DOMAIN book.orders
    THEN [ok |-> FALSE, err |-> "DuplicateOrderId", book |-> book]
    ELSE LET levels == SideLevels(book, order.side)
             level  == IF order.price \in DOMAIN levels
                       THEN levels[order.price]
                       ELSE [price |-> order.price, orders |-> <<>>, total_quantity |-> 0]
             level2 == [level EXCEPT !.total_quantity = @ + Remaining(order),
                                     !.orders = Append(@, order)]
             b2     == WithSideLevels(book, order.side, MapPut(levels, order.price, level2))
         IN [ok |-> TRUE, err |-> "None",
             book |-> [b2 EXCEPT !.orders = MapPut(@, order.order_id, order)]]

\* The quantity taken off the level when an order leaves through remove_order:
\* computed from the copy of the order held in the index.
RemovedQuantity(indexed, level) == indexed.quantity - indexed.filled

remove_order(book, order_id) ==
    IF order_id \notin DOMAIN book.orders
    THEN [ok |-> FALSE, err |-> "OrderNotFound", book |-> book]
    ELSE LET order  == book.orders[order_id]
             b1     == [book EXCEPT !.orders = MapRemove(@, order_id)]
             levels == SideLevels(b1, order.side)
         IN IF order.price \notin DOMAIN levels
            THEN [ok |-> TRUE, err |-> "None", book |-> b1]
            ELSE LET level  == levels[order.price]
                     level2 == [level EXCEPT
                                  !.orders = SelectSeqNot(@, order_id),
                                  !.total_quantity = @ - RemovedQuantity(order, level)]
                     levels2 == IF level2.orders = <<>>
                                THEN MapRemove(levels, order.price)
                                ELSE MapPut(levels, order.price, level2)
                 IN [ok |-> TRUE, err |-> "None",
                     book |-> WithSideLevels(b1, order.side, levels2)]

best_bid(book) == IF DOMAIN book.bids = {} THEN 0 ELSE Max(DOMAIN book.bids)
best_ask(book) == IF DOMAIN book.asks = {} THEN 0 ELSE Min(DOMAIN book.asks)

(***************************************************************************)
(* BalanceManager (settlement/balance_manager.rs).  accounts maps a user   *)
(* to [balance, reserved_margin]; a user without account is not in the     *)
(* domain.                                                                 *)
(***************************************************************************)
NewAccount == [balance |-> 0, reserved_margin |-> 0]

available_balance(account) == account.balance - account.reserved_margin

create_account(accts, user_id) ==
    IF user_id \in DOMAIN accts
    THEN [ok |-> FALSE, err |-> "AccountAlreadyExists", accounts |-> accts]
    ELSE [ok |-> TRUE, err |-> "None", accounts |-> MapPut(accts, user_id, NewAccount)]

adjust_balance(accts, user_id, amount) ==
    IF user_id \notin DOMAIN accts
    THEN [ok |-> FALSE, err |-> "AccountNotFound", accounts |-> accts]
    ELSE [ok |-> TRUE, err |-> "None",
          accounts |-> [accts EXCEPT ![user_id].balance = @ + amount]]

reserve_margin(accts, user_id, amount) ==
    IF user_id \notin DOMAIN accts
    THEN [ok |-> FALSE, err |-> "AccountNotFound", accounts |-> accts]
    ELSE IF available_balance(accts[user_id]) < amount
    THEN [ok |-> FALSE, err |-> "InsufficientAvailableBalance", accounts |-> accts]
    ELSE [ok |-> TRUE, err |-> "None",
          accounts |-> [accts EXCEPT ![user_id].reserved_margin = @ + amount]]

release_margin(accts, user_id, amount) ==
    IF user_id \notin DOMAIN accts
    THEN [ok |-> FALSE, err |-> "AccountNotFound", accounts |-> accts]
    ELSE [ok |-> TRUE, err |-> "None",
          accounts |-> [accts EXCEPT ![user_id].reserved_margin = @ - amount]]

(***************************************************************************)
(* Matcher (matching/matcher.rs, matching/self_trade.rs).                  *)
(***************************************************************************)
\* check_self_trade letting a user trade with itself
check_self_tradeAllow(maker, taker) == "Allow"

check_self_trade(maker, taker) ==
    IF maker.user_id = taker.user_id THEN "CancelMaker" ELSE "Allow"

\* price_crosses with the two comparisons exchanged
price_crossesSwapped(side, order_price, level_price) ==
    IF side = "Buy" THEN order_price <= level_price ELSE order_price >= level_price

price_crosses(side, order_price, level_price) ==
    IF side = "Buy" THEN order_price >= level_price ELSE order_price <= level_price

calculate_maker_fee(quantity, price) ==
    (quantity * price) * BalanceFromF64(maker_fee_rate_num, fee_rate_den)

\* the amount is an integer already when f64::ceil is applied to it
calculate_taker_fee(quantity, price) ==
    (quantity * price) * BalanceFromF64(taker_fee_rate_num, fee_rate_den)

calculate_order_margin(order, mark_price) ==
    TruncDiv(order.quantity * mark_price, MatcherLeverage)

\* One pass of the matching loops: the head of the best opposite level is
\* cancelled (self trade) or filled, until the taker is filled or nothing crosses.
RECURSIVE MatchLoop(_, _, _, _)
MatchLoop(book, order, remaining, trades) ==
    LET opp == SideLevels(book, Opposite(order.side))
        out == [book |-> book, remaining |-> remaining, trades |-> trades]
    IN IF remaining <= 0 \/ DOMAIN opp = {} THEN out
       ELSE LET best_price == IF order.side = "Buy" THEN Min(DOMAIN opp) ELSE Max(DOMAIN opp)
                level == opp[best_price]
                PutLevel(b, lv) ==
                    WithSideLevels(b, Opposite(order.side),
                        IF lv.orders = <<>> THEN MapRemove(opp, best_price)
                        ELSE MapPut(opp, best_price, lv))
            IN IF ~price_crosses(order.side, order.price, best_price) THEN out
               ELSE IF level.orders = <<>>
               THEN MatchLoop(PutLevel(book, level), order, remaining, trades)
               ELSE LET maker == Head(level.orders)
                    IN IF check_self_trade(maker, order) = "CancelMaker"
                       THEN LET lv == [level EXCEPT !.orders = Tail(@),
                                                    !.total_quantity = @ - Remaining(maker)]
                                b1 == [book EXCEPT !.orders = MapRemove(@, maker.order_id)]
                            IN MatchLoop(PutLevel(b1, lv), order, remaining, trades)
                       ELSE LET fill_qty == Min({remaining, Remaining(maker)})
                                trade == [maker_order_id |-> maker.order_id,
                                          taker_order_id |-> order.order_id,
                                          maker_user_id |-> maker.user_id,
                                          taker_user_id |-> order.user_id,
                                          price |-> maker.price,
                                          quantity |-> fill_qty,
                                          maker_side |-> maker.side,
                                          maker_fee |-> calculate_maker_fee(fill_qty, maker.price),
                                          taker_fee |-> calculate_taker_fee(fill_qty, maker.price)]
                                maker2 == [maker EXCEPT !.filled = @ + fill_qty]
                                full == maker2.filled = maker2.quantity
                                lv == [level EXCEPT
                                         !.orders = IF full THEN Tail(@)
                                                    ELSE <<maker2>> \o Tail(@),
                                         !.total_quantity = @ - fill_qty]
                                b1 == IF full
                                      THEN [book EXCEPT !.orders = MapRemove(@, maker.order_id)]
                                      ELSE book
                            IN MatchLoop(PutLevel(b1, lv), order, remaining - fill_qty,
                                         Append(trades, trade))

\* the GTC branch: margin for the order, then the order rests with what is
\* left of it; res and add are what reserve_margin and add_order returned
RestOrder(m, accts, res, add) ==
    IF ~res.ok
    THEN [ok |-> FALSE, err |-> res.err, book |-> m.book, accounts |-> accts,
          trades |-> <<>>]
    ELSE IF ~add.ok
    THEN [ok |-> FALSE, err |-> add.err, book |-> m.book,
          accounts |-> res.accounts, trades |-> <<>>]
    ELSE [ok |-> TRUE, err |-> "None", book |-> add.book,
          accounts |-> res.accounts, trades |-> m.trades]

\* m is what the matching loops have left
AfterMatchLoop(m, order, accts, mark_price) ==
    IF m.remaining > 0 /\ order.time_in_force = "GTC"
    THEN RestOrder(m, accts,
            reserve_margin(accts, order.user_id,
                calculate_order_margin([order EXCEPT !.filled = order.quantity - m.remaining],
                                       mark_price)),
            add_order(m.book, [order EXCEPT !.filled = order.quantity - m.remaining]))
    ELSE [ok |-> TRUE, err |-> "None", book |-> m.book, accounts |-> accts,
          trades |-> m.trades]

match_order(book, order, accts, mark_price) ==
    AfterMatchLoop(MatchLoop(book, order, order.quantity, <<>>), order, accts, mark_price)

(***************************************************************************)
(* Positions (risk/pnl.rs, settlement/position_manager.rs).  positions     *)
(* maps a user to [size, entry_price, realized_pnl].                       *)
(***************************************************************************)
NewPosition == [size |-> 0, entry_price |-> 0, realized_pnl |-> 0]

TradeSizeSigned(trade_side, trade_quantity) ==
    IF trade_side = "Buy" THEN trade_quantity ELSE -trade_quantity

calculate_realized_pnl(position, trade_side, trade_quantity, trade_price) ==
    LET is_reducing == IF trade_side = "Buy" THEN position.size < 0 ELSE position.size > 0
        close_qty == Min({trade_quantity, Abs(position.size)})
        pnl_per_unit == IF position.size > 0
                        THEN trade_price - position.entry_price
                        ELSE position.entry_price - trade_price
    IN IF ~is_reducing THEN 0 ELSE close_qty * pnl_per_unit

PnL_update_position(position, trade_side, trade_quantity, trade_price) ==
    LET new_size == position.size + TradeSizeSigned(trade_side, trade_quantity)
        realized == calculate_realized_pnl(position, trade_side, trade_quantity, trade_price)
        increasing == (position.size >= 0 /\ new_size > position.size)
                      \/ (position.size <= 0 /\ new_size < position.size)
        old_notional == Abs(position.size) * position.entry_price
        new_notional == trade_quantity * trade_price
        total_size == Abs(position.size) + trade_quantity
        entry == IF increasing
                 THEN (IF total_size > 0
                       THEN TruncDiv(old_notional + new_notional, total_size)
                       ELSE position.entry_price)
                 ELSE IF new_size = 0 THEN 0 ELSE position.entry_price
    IN [size |-> new_size, entry_price |-> entry,
        realized_pnl |-> position.realized_pnl + realized]

\* PositionManager::update_position: get_or_create_position, then the PnL update
update_position(pos, user_id, trade_side, trade_quantity, trade_price) ==
    LET position == IF user_id \in DOMAIN pos THEN pos[user_id] ELSE NewPosition
    IN MapPut(pos, user_id,
              PnL_update_position(position, trade_side, trade_quantity, trade_price))

(***************************************************************************)
(* MarginCalculator (risk/margin.rs).                                      *)
(***************************************************************************)
calculate_initial_margin(position_size, mark_price) ==
    TruncDiv(position_size * mark_price, BalanceFromF64(max_leverage, 1))

(***************************************************************************)
(* Events (events/base.rs).  An event is                                   *)
(*   [event_id, sequence, physical, event_type, checksum, payload]         *)
(* and its checksum is the hash of (event_id, sequence, physical,          *)
(* event_type); the hash is modelled by the tuple of its inputs.           *)
(***************************************************************************)
calculate_checksum(e) == <<e.event_id, e.sequence, e.physical, e.event_type>>

verify_checksum(e) == e.checksum = calculate_checksum(e)

\* BaseEvent::new / with_payload: sequence 0, checksum over the new event
NewBaseEvent(event_type, payload) ==
    LET e == [event_id |-> 1, sequence |-> NewEventSequence, physical |-> 1,
              event_type |-> event_type, checksum |-> <<>>, payload |-> payload]
    IN [e EXCEPT !.checksum = calculate_checksum(e)]

(***************************************************************************)
(* KafkaEventProducer::produce (event_log/producer.rs): the sequence is    *)
(* taken with fetch_add before the send; a send that fails after all       *)
(* retries keeps the number it took.                                       *)
(***************************************************************************)
AssignedSequence(counter) == counter

produce(s, event, send_ok) ==
    LET sequence == AssignedSequence(s.sequence_counter)
        sent == [event EXCEPT !.sequence = sequence]
    IN [ok |-> send_ok,
        s |-> [s EXCEPT !.sequence_counter = @ + 1,
                        !.log = IF send_ok THEN Append(@, sent) ELSE @]]

(***************************************************************************)
(* EventProcessor (core/event_processor.rs).  The handlers take the        *)
(* processor state s, a record of the variables they can change, and       *)
(* return [s, err]; err = "None" is Ok(()).  An early return of the code   *)
(* keeps what was changed before it.                                       *)
(***************************************************************************)
Ret(s, err) == [s |-> s, err |-> err]

validate_price(price) ==
    IF price % tick_size # 0 THEN "InvalidTickSize"
    ELSE IF price <= 0 THEN "InvalidPrice"
    ELSE "None"

validate_quantity(quantity) ==
    IF quantity % lot_size # 0 THEN "InvalidLotSize"
    ELSE IF quantity < min_order_size THEN "BelowMinOrderSize"
    ELSE IF quantity > max_order_size THEN "AboveMaxOrderSize"
    ELSE "None"

validate_order_type_constraints(o) ==
    IF o.order_type = "Market"
    THEN (IF o.post_only THEN "MarketOrderCannotBePostOnly"
          ELSE IF ~o.has_slippage_limit THEN "MarketOrderRequiresSlippageLimit"
          ELSE "None")
    ELSE (IF ~o.has_price THEN "LimitOrderRequiresPrice" ELSE "None")

validate(o) ==
    LET p == IF o.has_price THEN validate_price(o.price) ELSE "None"
        q == validate_quantity(o.quantity)
    IN IF p # "None" THEN p
       ELSE IF q # "None" THEN q
       ELSE validate_order_type_constraints(o)

\* In the operators below r is the [s, err] of the steps made so far: the ?
\* operator ends the handler at the first error, with the state the steps
\* before it have left.

\* the outcome a of a BalanceManager operation, taken into the state
WithAccounts(s, a) ==
    Ret([s EXCEPT !.accounts = a.accounts], IF a.ok THEN "None" ELSE a.err)

\* the outcome b of an operation on the processor's order book
WithOrderBook(s, b) ==
    Ret([s EXCEPT !.order_book = b.book], IF b.ok THEN "None" ELSE b.err)

\* the outcome pr of KafkaEventProducer::produce
Produced(pr) == Ret(pr.s, IF pr.ok THEN "None" ELSE "KafkaError")

\* Step 6 of process_order_submit: per trade, both positions, both fees, then
\* the Trade event is sent to the log.  fail_at is the number of the send that
\* fails (0: none).
MakerTradeSide(trade) == IF trade.maker_side = "Buy" THEN "Sell" ELSE "Buy"
TakerTradeSide(trade) == IF trade.maker_side = "Buy" THEN "Buy" ELSE "Sell"

TradePositions(pos, trade, maker_trade_side, taker_trade_side) ==
    update_position(
        update_position(pos, trade.maker_user_id, maker_trade_side, trade.quantity,
                        trade.price),
        trade.taker_user_id, taker_trade_side, trade.quantity, trade.price)

DebitTakerFee(r, trade) ==
    IF r.err # "None" THEN r
    ELSE WithAccounts(r.s, adjust_balance(r.s.accounts, trade.taker_user_id,
                                          -trade.taker_fee))

DebitFees(s, trade) ==
    DebitTakerFee(WithAccounts(s, adjust_balance(s.accounts, trade.maker_user_id,
                                                 -trade.maker_fee)), trade)

EmitTrade(r, trade, send_ok) ==
    IF r.err # "None" THEN r
    ELSE Produced(produce(r.s, NewBaseEvent("Trade", [kind |-> "Trade", trade |-> trade]),
                          send_ok))

ApplyTrade(s, trade, send_ok) ==
    EmitTrade(DebitFees([s EXCEPT !.positions =
                            TradePositions(@, trade, MakerTradeSide(trade),
                                           TakerTradeSide(trade))], trade),
              trade, send_ok)

\* the loop over the trades, k the number of the next send
RECURSIVE ApplyTrades(_, _, _, _)
ApplyTrades(r, trades, k, fail_at) ==
    IF r.err # "None" \/ trades = <<>> THEN r
    ELSE ApplyTrades(ApplyTrade(r.s, Head(trades), k # fail_at), Tail(trades), k + 1,
                     fail_at)

\* Steps 2 and 3 of process_order_submit: the account, its available balance
\* against the initial margin, the reservation
PreTradeCheck(s, user_id, required_margin) ==
    IF user_id \notin DOMAIN s.accounts THEN Ret(s, "AccountNotFound")
    ELSE IF available_balance(s.accounts[user_id]) < required_margin
    THEN Ret(s, "InsufficientMargin")
    ELSE WithAccounts(s, reserve_margin(s.accounts, user_id, required_margin))

\* Step 4: the Order built from the payload
NewOrder(o) ==
    [order_id |-> o.order_id, user_id |-> o.user_id, side |-> o.side,
     price |-> IF o.has_price THEN o.price ELSE 0,
     quantity |-> o.quantity, filled |-> 0, time_in_force |-> o.time_in_force]

\* Steps 5 and 6: m is what Matcher::match_order returned
AfterMatch(s, m, env) ==
    ApplyTrades(Ret([s EXCEPT !.matcher_book = m.book, !.accounts = m.accounts],
                    IF m.ok THEN "None" ELSE m.err),
                m.trades, 1, env.kafka_fail_at)

MatchAdded(r, o, env) ==
    IF r.err # "None" THEN r
    ELSE AfterMatch(r.s, match_order(r.s.matcher_book, NewOrder(o), r.s.accounts,
                                     r.s.last_mark_price), env)

AddToBook(r, o, env) ==
    IF r.err # "None" THEN r
    ELSE MatchAdded(WithOrderBook(r.s, add_order(r.s.order_book, NewOrder(o))), o, env)

SubmitOrder(s, o, env) ==
    IF validate(o) # "None" THEN Ret(s, validate(o))
    ELSE AddToBook(PreTradeCheck(s, o.user_id,
                                 calculate_initial_margin(o.quantity, s.last_mark_price)),
                   o, env)

process_order_submit(s, event, env) ==
    IF event.payload.kind # "OrderSubmit" THEN Ret(s, "InvalidEventPayload")
    ELSE SubmitOrder(s, event.payload, env)

\* Step 4 of process_order_cancel: the margin of the unfilled part is released
ReleaseUnfilled(r, c, order) ==
    IF r.err # "None" THEN r
    ELSE IF order.quantity - order.filled > 0
    THEN WithAccounts(r.s, release_margin(r.s.accounts, c.user_id,
                calculate_initial_margin(order.quantity - order.filled,
                                         r.s.last_mark_price)))
    ELSE r

\* Steps 1 to 4 of process_order_cancel for the order found in the book
CancelOrder(s, c, order) ==
    IF order.user_id # c.user_id THEN Ret(s, "Unauthorized")
    ELSE ReleaseUnfilled(WithOrderBook(s, remove_order(s.order_book, c.order_id)),
                         c, order)

process_order_cancel(s, event) ==
    IF event.payload.kind # "OrderCancel" THEN Ret(s, "InvalidEventPayload")
    ELSE IF event.payload.order_id \notin DOMAIN s.order_book.orders
    THEN Ret(s, "OrderNotFound")
    ELSE CancelOrder(s, event.payload, s.order_book.orders[event.payload.order_id])

\* Step 5 of process_trade: an order is removed when its copy in the index is filled
RemoveIfFilled(book, order_id) ==
    IF order_id \in DOMAIN book.orders
       /\ book.orders[order_id].filled >= book.orders[order_id].quantity
    THEN remove_order(book, order_id).book
    ELSE book

RemoveFilledOrders(r, t) ==
    IF r.err # "None" THEN r
    ELSE Ret([r.s EXCEPT !.order_book =
                 RemoveIfFilled(RemoveIfFilled(@, t.maker_order_id), t.taker_order_id)],
             "None")

ApplyTradeEvent(s, t) ==
    RemoveFilledOrders(
        DebitFees([s EXCEPT !.positions =
                      TradePositions(@, t, t.maker_side, Opposite(t.maker_side))], t),
        t)

process_trade(s, event) ==
    IF event.payload.kind # "Trade" THEN Ret(s, "InvalidEventPayload")
    ELSE ApplyTradeEvent(s, event.payload.trade)

\* Step 1 of process_funding: the payments are applied one by one; the first
\* one without account ends the handler with the earlier ones applied.
RECURSIVE ApplyPayments(_, _)
ApplyPayments(r, payments) ==
    IF r.err # "None" \/ payments = <<>> THEN r
    ELSE ApplyPayments(WithAccounts(r.s, adjust_balance(r.s.accounts,
                                                        Head(payments).user_id,
                                                        Head(payments).payment)),
                       Tail(payments))

TotalPayments(payments) ==
    SeqSum([i \in 1..Len(payments) |-> payments[i].payment])

\* Step 2 of process_funding
VerifyZeroSum(r, payments) ==
    IF r.err # "None" THEN r
    ELSE Ret(r.s, IF TotalPayments(payments) # 0 THEN "FundingNotZeroSum" ELSE "None")

process_funding(s, event) ==
    IF event.payload.kind # "Funding" THEN Ret(s, "InvalidEventPayload")
    ELSE VerifyZeroSum(ApplyPayments(Ret(s, "None"), event.payload.payments),
                       event.payload.payments)

\* Step 3 of process_balance_update
VerifyNonNegative(r, user_id) ==
    IF r.err # "None" THEN r
    ELSE Ret(r.s, IF r.s.accounts[user_id].balance < 0 THEN "InsufficientBalance"
                  ELSE "None")

Credit(s, b) ==
    VerifyNonNegative(WithAccounts(s, adjust_balance(s.accounts, b.user_id, b.amount)),
                      b.user_id)

Deposit(s, b) ==
    Credit([s EXCEPT !.accounts = IF b.user_id \in DOMAIN @ THEN @
                                  ELSE create_account(@, b.user_id).accounts], b)

Withdrawal(s, b) ==
    IF b.user_id \notin DOMAIN s.accounts THEN Ret(s, "AccountNotFound")
    ELSE IF available_balance(s.accounts[b.user_id]) < b.amount
    THEN Ret(s, "InsufficientAvailableBalance")
    ELSE VerifyNonNegative(WithAccounts(s, adjust_balance(s.accounts, b.user_id,
                                                          -b.amount)), b.user_id)

process_balance_update(s, event) ==
    IF event.payload.kind # "BalanceUpdate" THEN Ret(s, "InvalidEventPayload")
    ELSE IF event.payload.update_type = "Deposit" THEN Deposit(s, event.payload)
    ELSE Withdrawal(s, event.payload)

process_price_update(s, event) ==
    IF event.payload.kind # "PriceSnapshot" THEN Ret(s, "InvalidEventPayload")
    ELSE Ret([s EXCEPT !.last_mark_price = event.payload.mark_price], "None")

(***************************************************************************)
(* Liquidation (liquidation/executor.rs, priority_queue.rs,                *)
(* rate_limiter.rs, insurance_fund.rs, types/ratio.rs).                    *)
(***************************************************************************)
\* lib.rs: LIQUIDATION_ENGINE_USER_ID = UserId(Uuid::from_u128(0))
LIQUIDATION_ENGINE_USER_ID == 0
\* the id generate_order_id() gives the liquidation order: none of the book's ids
LiquidationOrderId == 0
RATIO_MULTIPLIER == 100000000
\* EMERGENCY_MARGIN_RATIO = 0.05 and TARGET_MARGIN_RATIO = 0.15, as fractions of 100
EMERGENCY_MARGIN_RATIO_pct == 5
TARGET_MARGIN_RATIO_pct == 15
MIN_POSITION_SIZE == 1
\* RateLimiter::new(10, 1 s)
max_per_interval == 10
\* InsuranceFund::new: balance 0
InitialInsuranceFund == 0

\* Ratio::from_f64(num / den): round to the nearest raw value, halves away from zero
RatioFromFraction(num, den) ==
    LET n == Abs(num) * RATIO_MULTIPLIER
        d == Abs(den)
        r == (2 * n + d) \div (2 * d)
    IN IF (num < 0) = (den < 0) THEN r ELSE -r

\* LiquidationPriorityQueue::pop: a candidate of the lowest margin ratio; which
\* one of several equal ones is the heap's choice (tie)
PopIndex(q, tie) ==
    LET lowest == {i \in 1..Len(q) : \A j \in 1..Len(q) : q[i].margin_ratio <= q[j].margin_ratio}
    IN IF tie THEN Min(lowest) ELSE Max(lowest)

RemoveAt(q, i) == [j \in 1..(Len(q) - 1) |-> IF j < i THEN q[j] ELSE q[j + 1]]

\* RateLimiter::check_and_record; expired is the number of recorded timestamps
\* older than the interval
check_and_record(count, expired) ==
    LET live == count - expired
    IN IF live >= max_per_interval
       THEN [ok |-> FALSE, count |-> live]
       ELSE [ok |-> TRUE, count |-> live + 1]

cover_loss(fund, loss) ==
    IF fund < loss THEN [ok |-> FALSE, fund |-> fund]
    ELSE [ok |-> TRUE, fund |-> fund - loss]

calculate_partial_liquidation_size(position, balance, mark_price) ==
    LET abs_size == Abs(position.size)
        position_value == abs_size * mark_price
        unrealized_pnl == (mark_price - position.entry_price) * position.size
        collateral == balance + unrealized_pnl
        target_position_value == TruncDiv(collateral * 100, TARGET_MARGIN_RATIO_pct)
        liquidation_value == position_value - target_position_value
        liquidation_size == TruncDiv(liquidation_value, mark_price)
        clamped_size == Min({Max({liquidation_size, 0}), abs_size})
        remaining_size == abs_size - clamped_size
    IN IF target_position_value <= 0 THEN abs_size
       ELSE IF remaining_size < MIN_POSITION_SIZE /\ remaining_size > 0 THEN abs_size
       ELSE clamped_size

calculate_liquidation_size(candidate, account) ==
    LET abs_size == Abs(candidate.position.size)
        partial_size == calculate_partial_liquidation_size(candidate.position,
                            account.balance, candidate.mark_price)
    IN IF candidate.margin_ratio < (EMERGENCY_MARGIN_RATIO_pct * RATIO_MULTIPLIER) \div 100
       THEN abs_size
       ELSE IF partial_size >= TruncDiv(abs_size * 9, 10) THEN abs_size
       ELSE partial_size

TradedQuantity(trades) == SeqSum([i \in 1..Len(trades) |-> trades[i].quantity])

\* what execute_next returns, with the state it leaves: liquidated is the
\* liquidated_size of Ok(Some(event)), -1 for Ok(None) and for an error
Exec(s, err, liquidated) == [s |-> s, err |-> err, liquidated |-> liquidated]

LiquidationOrder(candidate, liquidation_size) ==
    [order_id |-> LiquidationOrderId, user_id |-> LIQUIDATION_ENGINE_USER_ID,
     side |-> IF candidate.position.size > 0 THEN "Sell" ELSE "Buy",
     price |-> candidate.mark_price, quantity |-> liquidation_size,
     filled |-> 0, time_in_force |-> "IOC"]

\* the insurance fund covers the loss of an account left below zero
CoverLoss(s, liquidated_size, loss, cl) ==
    IF loss > 0 /\ ~cl.ok THEN Exec(s, "InsuranceFundDepleted", -1)
    ELSE IF loss > 0 THEN Exec([s EXCEPT !.insurance_fund = cl.fund], "None", liquidated_size)
    ELSE Exec(s, "None", liquidated_size)

Loss(balance) == IF balance < 0 THEN -balance ELSE 0

Settle(s, candidate, liquidated_size) ==
    IF liquidated_size = 0 THEN Exec(s, "LiquidationFailedNoLiquidity", -1)
    ELSE CoverLoss(s, liquidated_size, Loss(s.accounts[candidate.user_id].balance),
                   cover_loss(s.insurance_fund, Loss(s.accounts[candidate.user_id].balance)))

\* m is what match_order returned for the liquidation order
ExecuteOrder(s, candidate, m) ==
    IF ~m.ok THEN Exec([s EXCEPT !.matcher_book = m.book, !.accounts = m.accounts],
                       m.err, -1)
    ELSE Settle([s EXCEPT !.matcher_book = m.book, !.accounts = m.accounts], candidate,
                TradedQuantity(m.trades))

ExecuteCandidate(s, candidate) ==
    IF candidate.user_id \notin DOMAIN s.accounts THEN Exec(s, "AccountNotFound", -1)
    ELSE ExecuteOrder(s, candidate,
            match_order(s.matcher_book,
                        LiquidationOrder(candidate,
                            calculate_liquidation_size(candidate,
                                                       s.accounts[candidate.user_id])),
                        s.accounts, candidate.mark_price))

\* rl is what the rate limiter answered, i the place of the popped candidate
PopAndExecute(s, i) == ExecuteCandidate([s EXCEPT !.queue = RemoveAt(@, i)], s.queue[i])

ExecuteAllowed(s, rl, env) ==
    IF ~rl.ok
    THEN Exec([s EXCEPT !.rl_count = rl.count], "LiquidationRateLimitExceeded", -1)
    ELSE IF s.queue = <<>> THEN Exec([s EXCEPT !.rl_count = rl.count], "None", -1)
    ELSE PopAndExecute([s EXCEPT !.rl_count = rl.count], PopIndex(s.queue, env.tie))

\* LiquidationExecutor::execute_next (its own halted flag has no writer in the
\* program and stays false)
execute_next(s, env) == ExecuteAllowed(s, check_and_record(s.rl_count, env.rl_expired), env)

LiquidationCandidate(l, position) ==
    [user_id |-> l.user_id, position |-> position,
     margin_ratio |-> IF l.account_value # 0
                      THEN RatioFromFraction(l.maintenance_margin, l.account_value)
                      ELSE 0,
     maintenance_margin |-> l.maintenance_margin,
     mark_price |-> l.mark_price]

\* the position of the event's user after Ok(Some(event)): reduced toward zero
\* by the liquidated size and removed when it is flat
ReducePosition(pos, user_id, liquidated_size) ==
    IF user_id \notin DOMAIN pos THEN pos
    ELSE IF (IF pos[user_id].size > 0 THEN pos[user_id].size - liquidated_size
             ELSE pos[user_id].size + liquidated_size) = 0
    THEN MapRemove(pos, user_id)
    ELSE [pos EXCEPT ![user_id].size = IF @ > 0 THEN @ - liquidated_size
                                       ELSE @ + liquidated_size]

\* x is what execute_next returned
AfterExecute(x, user_id) ==
    IF x.err # "None" \/ x.liquidated < 0 THEN Ret(x.s, x.err)
    ELSE Ret([x.s EXCEPT !.positions = ReducePosition(@, user_id, x.liquidated)], "None")

process_liquidation(s, event, env) ==
    IF event.payload.kind # "Liquidation" THEN Ret(s, "InvalidEventPayload")
    ELSE IF event.payload.user_id \notin DOMAIN s.positions THEN Ret(s, "ConfigError")
    ELSE AfterExecute(
            execute_next([s EXCEPT !.queue =
                             Append(@, LiquidationCandidate(event.payload,
                                           s.positions[event.payload.user_id]))], env),
            event.payload.user_id)

(***************************************************************************)
(* EventProcessor::process_event.  The result is [kind, expected, actual]; *)
(* expected and actual are the fields of SequenceGap, 0 otherwise.         *)
(***************************************************************************)
Result(kind) == [kind |-> kind, expected |-> 0, actual |-> 0]

Res(s, r) == [s |-> s, result |-> r]

ExpectedSequence(s) == s.last_sequence + 1

IsDuplicateOffByOne(s, event) == event.sequence < s.last_sequence

\* the `event.sequence < expected_seq` test of step 1
IsDuplicate(s, event) == event.sequence < ExpectedSequence(s)

IsGapOffByOne(s, event) == event.sequence > ExpectedSequence(s) + 1

\* the `event.sequence > expected_seq` test of step 1
IsGap(s, event) == event.sequence > ExpectedSequence(s)

\* the branch taken on a gap: the global flag is stored, nothing else
OnSequenceGap(s) == [s EXCEPT !.KILL_SWITCH = TRUE]

DispatchedTypes == {"OrderSubmit", "OrderCancel", "Trade", "Funding", "Liquidation",
                    "BalanceUpdate", "PriceSnapshot"}

Dispatch(s, event, env) ==
    CASE event.event_type = "OrderSubmit" -> process_order_submit(s, event, env)
      [] event.event_type = "OrderCancel" -> process_order_cancel(s, event)
      [] event.event_type = "Trade" -> process_trade(s, event)
      [] event.event_type = "Funding" -> process_funding(s, event)
      [] event.event_type = "Liquidation" -> process_liquidation(s, event, env)
      [] event.event_type = "BalanceUpdate" -> process_balance_update(s, event)
      [] event.event_type = "PriceSnapshot" -> process_price_update(s, event)
      [] OTHER -> Ret(s, "None")

\* Steps 3 and 4: d is what the handler returned; last_sequence advances on Ok only
Dispatched(d, event) ==
    IF d.err # "None" THEN Res(d.s, Result(d.err))
    ELSE Res([d.s EXCEPT !.last_sequence = event.sequence], Result("Ok"))

process_event(s, event, env) ==
    IF s.halted THEN Res(s, Result("KillSwitchActive"))
    ELSE IF IsDuplicate(s, event) THEN Res(s, Result("Ok"))
    ELSE IF IsGap(s, event)
    THEN Res(OnSequenceGap(s), [kind |-> "SequenceGap",
                                expected |-> ExpectedSequence(s),
                                actual |-> event.sequence])
    ELSE IF ~verify_checksum(event) THEN Res(s, Result("ChecksumMismatch"))
    ELSE Dispatched(Dispatch(s, event, env), event)

(***************************************************************************)
(* Invariant monitor (invariants/checks.rs, invariants/monitor.rs) and     *)
(* main's is_fatal_error.                                                  *)
(***************************************************************************)
LevelConsistent(level) ==
    SeqSum([i \in 1..Len(level.orders) |-> Remaining(level.orders[i])]) = level.total_quantity

check_order_book_consistency(book) ==
    /\ \A p \in DOMAIN book.bids : LevelConsistent(book.bids[p])
    /\ \A p \in DOMAIN book.asks : LevelConsistent(book.asks[p])

check_no_negative_balances(accts) == \A u \in DOMAIN accts : accts[u].balance >= 0

\* maintenance margin is notional * Balance::from_f64(0.05) = 0, the ratio is
\* then infinite and never liquidatable: the check fails only when get_account does
check_margin_requirements(accts, pos) ==
    \A u \in DOMAIN pos : pos[u].size # 0 => u \in DOMAIN accts

check_all_invariants(book, accts, pos) ==
    /\ check_order_book_consistency(book)
    /\ check_no_negative_balances(accts)
    /\ check_margin_requirements(accts, pos)

FatalErrors == {"InvariantViolation", "FundingNotZeroSum", "InsuranceFundDepleted",
                "InvalidChecksum"}

is_fatal_error(kind) == kind \in FatalErrors

(***************************************************************************)
(* The events the log can deliver.                                         *)
(***************************************************************************)
\* sequence numbers of delivered events: duplicates, the expected one and gaps
Seqs == 0..MaxCalls
Amounts == {1, 2}
Quantities == {1, 2}

EmptyPayload == [kind |-> "Empty"]

SubmitPayload(u, id, side, ot, hp, p, q, tif, po, sl) ==
    [kind |-> "OrderSubmit", user_id |-> u, order_id |-> id, side |-> side,
     order_type |-> ot, has_price |-> hp, price |-> p, quantity |-> q,
     time_in_force |-> tif, post_only |-> po, has_slippage_limit |-> sl]

ValidSubmits ==
    {SubmitPayload(u, id, side, "Limit", TRUE, p, q, tif, FALSE, FALSE) :
        u \in Users, id \in OrderIds, side \in Sides, p \in Prices, q \in Quantities,
        tif \in {"GTC", "IOC"}}

\* orders the validator refuses, and a market order it accepts
OtherSubmits ==
    {SubmitPayload(1, 1, "Buy", "Limit", TRUE, 20, 0, "GTC", FALSE, FALSE),
     SubmitPayload(1, 1, "Buy", "Limit", TRUE, 20, 3, "GTC", FALSE, FALSE),
     SubmitPayload(1, 1, "Buy", "Limit", TRUE, 30, 1, "GTC", FALSE, FALSE),
     SubmitPayload(1, 1, "Buy", "Limit", FALSE, 0, 1, "GTC", FALSE, FALSE),
     SubmitPayload(1, 1, "Sell", "Market", FALSE, 0, 1, "IOC", FALSE, FALSE),
     SubmitPayload(1, 1, "Sell", "Market", FALSE, 0, 1, "IOC", TRUE, TRUE),
     SubmitPayload(1, 1, "Sell", "Market", FALSE, 0, 1, "IOC", FALSE, TRUE)}

CancelPayloads == {[kind |-> "OrderCancel", user_id |-> u, order_id |-> id] :
                      u \in Users, id \in OrderIds}

TradePayloads ==
    {[kind |-> "Trade",
      trade |-> [maker_order_id |-> 1, taker_order_id |-> 2, maker_user_id |-> u,
                 taker_user_id |-> 3 - u, price |-> 20, quantity |-> 1,
                 maker_side |-> side, maker_fee |-> f, taker_fee |-> f]] :
        u \in Users, side \in Sides, f \in {0, 1}}

Payment(u, p) == [user_id |-> u, payment |-> p]

FundingPayloads ==
    {[kind |-> "Funding", payments |-> ps] :
        ps \in {<<>>} \cup {<<Payment(u, p)>> : u \in Users, p \in {-2, 2}}
               \cup {<<Payment(1, p), Payment(2, q)>> : p \in {-2, 2}, q \in {-2, 2}}}

LiquidationPayloads ==
    {[kind |-> "Liquidation", user_id |-> u, mark_price |-> p,
      maintenance_margin |-> x[1], account_value |-> x[2]] :
        u \in Users, p \in Prices, x \in {<<1, 40>>, <<2, 40>>, <<1, 0>>}}

BalanceUpdatePayloads ==
    {[kind |-> "BalanceUpdate", user_id |-> u, update_type |-> t, amount |-> a] :
        u \in Users, t \in {"Deposit", "Withdrawal"}, a \in Amounts}

PricePayloads == {[kind |-> "PriceSnapshot", mark_price |-> p] : p \in Prices}

PayloadsOf(event_type) ==
    CASE event_type = "OrderSubmit" -> ValidSubmits \cup OtherSubmits
      [] event_type = "OrderCancel" -> CancelPayloads
      [] event_type = "Trade" -> TradePayloads
      [] event_type = "Funding" -> FundingPayloads
      [] event_type = "Liquidation" -> LiquidationPayloads
      [] event_type = "BalanceUpdate" -> BalanceUpdatePayloads
      [] event_type = "PriceSnapshot" -> PricePayloads
      [] OTHER -> {}

\* the types process_event dispatches and two of those it skips
EventTypes == DispatchedTypes \cup {"OrderAccepted", "KillSwitchActivated"}

\* every type comes with its own payloads and with the Empty payload
TypedPayloads ==
    {<<t, pl>> : t \in EventTypes, pl \in {EmptyPayload}} \cup
    UNION {{<<t, pl>> : pl \in PayloadsOf(t)} : t \in DispatchedTypes}

MakeEvent(seq, tp, good) ==
    LET e == [event_id |-> 1, sequence |-> seq, physical |-> 1, event_type |-> tp[1],
              checksum |-> <<>>, payload |-> tp[2]]
    IN [e EXCEPT !.checksum = IF good THEN calculate_checksum(e)
                              ELSE calculate_checksum([e EXCEPT !.event_id = 0])]

\* process_event reads nothing but the sequence and the checksum of an event it
\* does not dispatch: two payloads stand for all of them there
RefusedPayloads ==
    {<<"BalanceUpdate", [kind |-> "BalanceUpdate", user_id |-> 1,
                         update_type |-> "Deposit", amount |-> 1]>>,
     <<"OrderSubmit", SubmitPayload(1, 1, "Buy", "Limit", TRUE, 20, 1, "GTC", FALSE, FALSE)>>}

\* the events the log can deliver after last_seq
Events(last_seq) ==
    {MakeEvent(last_seq + 1, tp, TRUE) : tp \in TypedPayloads} \cup
    {MakeEvent(seq, tp, good) : seq \in Seqs, tp \in RefusedPayloads, good \in BOOLEAN}

NoEnv == [kafka_fail_at |-> 0, rl_expired |-> 0, tie |-> TRUE]

\* what the environment decides while a handler runs: which send to the log
\* fails, how many rate-limiter timestamps have expired, the heap's choice among
\* equals; an event that is not dispatched leaves it nothing to decide
EnvFor(s, event) ==
    CASE IsDuplicate(s, event) \/ IsGap(s, event) \/ ~verify_checksum(event) -> {NoEnv}
      [] event.event_type = "OrderSubmit" ->
            {[NoEnv EXCEPT !.kafka_fail_at = k] : k \in 0..max_order_size}
      [] event.event_type = "Liquidation" ->
            {[NoEnv EXCEPT !.rl_expired = x, !.tie = t] : x \in 0..s.rl_count, t \in BOOLEAN}
      [] OTHER -> {NoEnv}

(***************************************************************************)
(* State, Init and the actions of the running engine (main.rs).            *)
(***************************************************************************)
State == [last_sequence |-> last_sequence, last_mark_price |-> last_mark_price,
          halted |-> halted, KILL_SWITCH |-> KILL_SWITCH, accounts |-> accounts,
          positions |-> positions, order_book |-> order_book,
          matcher_book |-> matcher_book, queue |-> queue, rl_count |-> rl_count,
          insurance_fund |-> insurance_fund, log |-> log,
          sequence_counter |-> sequence_counter]

SetState(s) ==
    /\ last_sequence' = s.last_sequence
    /\ last_mark_price' = s.last_mark_price
    /\ halted' = s.halted
    /\ KILL_SWITCH' = s.KILL_SWITCH
    /\ accounts' = s.accounts
    /\ positions' = s.positions
    /\ order_book' = s.order_book
    /\ matcher_book' = s.matcher_book
    /\ queue' = s.queue
    /\ rl_count' = s.rl_count
    /\ insurance_fund' = s.insurance_fund
    /\ log' = s.log
    /\ sequence_counter' = s.sequence_counter

\* no match_order call was just made
NoOrder == [order_id |-> 0]
matchVars == <<incoming, matched>>
taskVars == <<HLC, threads, returned, ticks, circuit_breaker, locks, snapshot_seq>>
auxVars == <<circuit_breaker, locks, snapshot_seq>>
CoreLocks == {"balance_manager", "position_manager", "order_book", "matcher"}
FreeLock == [writer |-> 0, readers |-> {}]

\* threads that call Timestamp::now()
Threads == {1, 2}
\* a thread outside now()
IdleThread == [pc |-> "idle"]

NoEvent == [sequence |-> 0, valid |-> TRUE]
NoResult == Result("None")

InitCommon ==
    /\ last_sequence = InitialLastSequence
    /\ last_mark_price = DefaultMarkPrice
    /\ halted = FALSE
    /\ KILL_SWITCH = FALSE
    /\ kill_switch = FALSE
    /\ loop = "running"
    /\ positions = EmptyMap
    /\ order_book = NewOrderBook
    /\ matcher_book = NewOrderBook
    /\ queue = <<>>
    /\ rl_count = 0
    /\ insurance_fund = InitialInsuranceFund
    /\ log = <<>>
    /\ sequence_counter = InitialSequenceCounter
    /\ ev = NoEvent
    /\ result = NoResult
    /\ calls = 0
    /\ replay = "idle"
    /\ incoming = NoOrder
    /\ matched = <<>>
    /\ HLC = [last_physical |-> 0, last_logical |-> 0]
    /\ threads = [t \in Threads |-> IdleThread]
    /\ returned = <<>>
    /\ ticks = 0
    /\ circuit_breaker = [active |-> FALSE, last_price |-> 0]
    /\ locks = [l \in CoreLocks |-> FreeLock]
    /\ snapshot_seq = <<>>

Init == InitCommon /\ accounts = EmptyMap

\* main's loop, the fetch_next_event arm: one event is processed (the call is
\* written without .await there; it is taken as the awaited call); a fatal
\* error activates the kill switch and ends the loop
Ingested(event, r) ==
    /\ SetState(r.s)
    /\ ev' = [sequence |-> event.sequence, valid |-> verify_checksum(event)]
    /\ result' = r.result
    /\ IF r.result.kind # "Ok" /\ is_fatal_error(r.result.kind)
       THEN kill_switch' = TRUE /\ loop' = "stopped"
       ELSE UNCHANGED <<kill_switch, loop>>
    /\ calls' = calls + 1
    /\ UNCHANGED <<matchVars, taskVars>>

IngestEvent ==
    /\ loop = "running"
    /\ calls < MaxCalls
    /\ \E event \in Events(last_sequence) : \E env \in EnvFor(State, event) :
         Ingested(event, process_event(State, event, env))
    /\ UNCHANGED replay

\* the invariant monitor task: a failed check activates the kill switch
InvariantMonitorTick ==
    /\ loop = "running"
    /\ ~check_all_invariants(order_book, accounts, positions)
    /\ kill_switch' = TRUE
    /\ UNCHANGED <<procVars, loop, ev, result, calls, replay, matchVars, taskVars>>

\* main's loop, the 100 ms arm: the loop ends when the kill switch is active
KillSwitchTick ==
    /\ loop = "running"
    /\ kill_switch
    /\ loop' = "stopped"
    /\ UNCHANGED <<procVars, kill_switch, ev, result, calls, replay, matchVars, taskVars>>

Next == IngestEvent \/ InvariantMonitorTick \/ KillSwitchTick

Spec == Init /\ [][Next]_vars

(***************************************************************************)
(* Properties of the sequence discipline and of the kill switch.           *)
(* A step is a process_event call exactly when it increments calls; ev'    *)
(* and result' are then the event of the call and what it returned.        *)
(*                                                                         *)
(* EventProcessor::halt and resume are operator entry points; nothing in   *)
(* the program calls them, so halted keeps its initial value.              *)
(***************************************************************************)
Called == calls' = calls + 1

\* C1: an event whose sequence is above last_sequence + 1 activates the kill
\* switch and returns SequenceGap{expected: last_sequence + 1, actual: its
\* sequence}; last_sequence, the accounts, the positions, the order books and
\* the mark price stay as they were.
C1_GapActivatesKillSwitch ==
    [][(Called /\ ev'.sequence > last_sequence + 1) =>
          /\ KILL_SWITCH'
          /\ result' = [kind |-> "SequenceGap", expected |-> last_sequence + 1,
                        actual |-> ev'.sequence]
          /\ last_sequence' = last_sequence
          /\ UNCHANGED coreVars]_vars

C1_Witness ==
    /\ result.kind = "SequenceGap"
    /\ KILL_SWITCH
    /\ last_sequence >= 1
    /\ order_book.orders # EmptyMap

\* C2: after a sequence gap (the only writer of KILL_SWITCH) no later
\* process_event call applies an event, the event carrying the expected
\* sequence included: last_sequence never advances again.
C2_RefusedAfterGap ==
    [][(Called /\ KILL_SWITCH) => last_sequence' = last_sequence]_vars

\* C3: an event whose sequence is at most last_sequence returns Ok and changes
\* nothing, whatever its type, payload and checksum and however often it comes.
C3_DuplicateIsNoOp ==
    [][(Called /\ ev'.sequence <= last_sequence) =>
          /\ result' = Result("Ok")
          /\ UNCHANGED procVars
          /\ UNCHANGED <<kill_switch, loop>>]_vars

C3_Witness ==
    /\ calls >= 2
    /\ ev.sequence >= 1
    /\ ev.sequence < last_sequence
    /\ result.kind = "Ok"
    /\ accounts # EmptyMap

RejectableErrors ==
    {"InvalidTickSize", "InvalidPrice", "InvalidLotSize", "BelowMinOrderSize",
     "AboveMaxOrderSize", "MarketOrderCannotBePostOnly",
     "MarketOrderRequiresSlippageLimit", "LimitOrderRequiresPrice", "DuplicateOrderId",
     "InsufficientMargin", "InsufficientAvailableBalance", "OrderNotFound",
     "Unauthorized",
     "LiquidationRateLimitExceeded", "LiquidationFailedNoLiquidity"}

\* C5: when the event with sequence n was refused with a rejectable error, the
\* event with sequence n + 1 that follows it is dispatched and is not reported
\* as a sequence gap.
C5_NextAfterRejectedIsNotGap ==
    [][(/\ Called
        /\ calls >= 1
        /\ result.kind \in RejectableErrors
        /\ ev.sequence = last_sequence + 1
        /\ ev'.sequence = ev.sequence + 1
        /\ ev'.valid) => result'.kind # "SequenceGap"]_vars

\* C6: an in-sequence event with a wrong checksum is not dispatched and returns
\* ChecksumMismatch with the state and last_sequence unchanged; the ingest loop
\* treats it as fatal: it activates the kill switch and processes no later event.
C6_ChecksumMismatchIsFatal ==
    [][(Called /\ ev'.sequence = last_sequence + 1 /\ ~ev'.valid) =>
          /\ result'.kind = "ChecksumMismatch"
          /\ last_sequence' = last_sequence
          /\ UNCHANGED coreVars
          /\ kill_switch'
          /\ loop' = "stopped"]_vars

\* C7: once the kill switch of main is active (set by the invariant monitor or
\* by a fatal error) no later process_event call returns Ok with the accounts,
\* the positions or an order book changed.
C7_NoWriteAfterKillSwitch ==
    [][(Called /\ kill_switch /\ result'.kind = "Ok") =>
          UNCHANGED <<accounts, positions, order_book, matcher_book>>]_vars

Applied == Called /\ result'.kind = "Ok" /\ last_sequence' = last_sequence + 1

\* every call so far applied its event: calls counts the calls, last_sequence
\* the applied events
OnlyAppliedEvents == calls = last_sequence

NonNegativeBalances == \A u \in DOMAIN accounts : accounts[u].balance >= 0

\* C8: in a run of successfully applied events every account balance stays >= 0.
C8_BalancesStayNonNegative ==
    [][(OnlyAppliedEvents /\ Applied /\ NonNegativeBalances) => NonNegativeBalances']_vars

ReservedWithinBalance ==
    \A u \in DOMAIN accounts :
        0 <= accounts[u].reserved_margin /\ accounts[u].reserved_margin <= accounts[u].balance

\* C9: in a run of successfully applied events every account keeps
\* 0 <= reserved_margin <= balance; the events that leave a balance negative are
\* set aside here, they are the matter of C8.
C9_ReservedMarginWithinBalance ==
    [][(OnlyAppliedEvents /\ Applied /\ ReservedWithinBalance /\ NonNegativeBalances') =>
          ReservedWithinBalance']_vars

(***************************************************************************)
(* The log written through KafkaEventProducer::produce and read back by a  *)
(* fresh EventProcessor: by main's ingest loop (fetch_next_event) or by    *)
(* Replayer::replay_from_beginning (fetch_event(seq), seq from 0).         *)
(* replay is "idle" while the log is written, then "ingest" or "replay"    *)
(* while it is read, "done" or "failed" when the reading has ended; calls  *)
(* is the number of log entries read.                                      *)
(***************************************************************************)
\* what the producers of main send: deposits, price snapshots, cancels
ProducedPayloads ==
    {<<"BalanceUpdate", pl>> : pl \in {b \in BalanceUpdatePayloads : b.update_type = "Deposit"}}
    \cup {<<"PriceSnapshot", pl>> : pl \in PricePayloads}
    \cup {<<"OrderCancel", pl>> : pl \in CancelPayloads}

\* BaseEvent::with_payload: the checksum is computed again with the payload set
with_payload(event_type, payload) == NewBaseEvent(event_type, payload)

Produce ==
    /\ replay = "idle"
    /\ sequence_counter < MaxLog
    /\ \E tp \in ProducedPayloads : \E send_ok \in BOOLEAN :
         SetState(produce(State, with_payload(tp[1], tp[2]), send_ok).s)
    /\ UNCHANGED <<kill_switch, loop, ev, result, calls, replay, matchVars, taskVars>>

StartIngest ==
    /\ replay = "idle"
    /\ log # <<>>
    /\ replay' = "ingest"
    /\ UNCHANGED <<procVars, kill_switch, loop, ev, result, calls, matchVars, taskVars>>

StartReplay ==
    /\ replay = "idle"
    /\ log # <<>>
    /\ replay' = "replay"
    /\ UNCHANGED <<procVars, kill_switch, loop, ev, result, calls, matchVars, taskVars>>

\* main's loop reading the log in order
IngestFromLog ==
    /\ replay = "ingest"
    /\ loop = "running"
    /\ calls < Len(log)
    /\ Ingested(log[calls + 1], process_event(State, log[calls + 1], NoEnv))
    /\ UNCHANGED replay

Replayed(event, r) ==
    /\ SetState(r.s)
    /\ ev' = [sequence |-> event.sequence, valid |-> verify_checksum(event)]
    /\ result' = r.result
    /\ calls' = calls + 1
    /\ replay' = IF r.result.kind = "Ok" THEN "replay" ELSE "failed"

\* one round of the loop of replay_from_beginning: seq = calls
ReplayFromBeginning ==
    /\ replay = "replay"
    /\ IF calls >= Len(log)
       THEN /\ replay' = "done"
            /\ UNCHANGED <<procVars, ev, result, calls>>
       ELSE IF log[calls + 1].sequence # calls
       THEN /\ replay' = "failed"
            /\ result' = Result("SequenceMismatch")
            /\ UNCHANGED <<procVars, ev, calls>>
       ELSE Replayed(log[calls + 1], process_event(State, log[calls + 1], NoEnv))
    /\ UNCHANGED <<kill_switch, loop, matchVars, taskVars>>

NextLog == Produce \/ StartIngest \/ StartReplay \/ IngestFromLog \/ ReplayFromBeginning

SpecLog == Init /\ [][NextLog]_vars

\* C4: a fresh processor reading a log written by produce applies every event
\* exactly once: no event it reads, the first one included, is skipped as a
\* duplicate (none carries a sequence at or below last_sequence).
C4_NoLogEventSkipped ==
    [][Called => ev'.sequence > last_sequence]_vars

(***************************************************************************)
(* The order book driven through its operations: OrderBook::add_order,     *)
(* OrderBook::remove_order and Matcher::match_order on one book, for two   *)
(* funded accounts.                                                        *)
(***************************************************************************)
\* the balance both accounts have been credited with by deposits
BookDeposit == 4
\* the id of the incoming order of match_order
TakerOrderId == 3

BookOrders(ids, tifs) ==
    {[order_id |-> id, user_id |-> u, side |-> side, price |-> p, quantity |-> q,
      filled |-> 0, time_in_force |-> tif] :
        id \in ids, u \in Users, side \in Sides, p \in Prices, q \in Quantities,
        tif \in tifs}

InitBook ==
    /\ InitCommon
    /\ accounts = [u \in Users |-> [NewAccount EXCEPT !.balance = BookDeposit]]

BookAddOrder ==
    /\ calls < MaxCalls
    /\ \E order \in BookOrders(OrderIds, {"GTC"}) :
         LET r == add_order(matcher_book, order)
         IN /\ matcher_book' = r.book
            /\ result' = Result(IF r.ok THEN "Ok" ELSE r.err)
    /\ calls' = calls + 1
    /\ incoming' = NoOrder
    /\ matched' = <<>>
    /\ UNCHANGED <<last_sequence, last_mark_price, halted, KILL_SWITCH, kill_switch, loop,
                   accounts, positions, order_book, queue, rl_count, insurance_fund, log,
                   sequence_counter, ev, replay, taskVars>>

BookRemoveOrder ==
    /\ calls < MaxCalls
    /\ \E id \in OrderIds \cup {TakerOrderId} :
         LET r == remove_order(matcher_book, id)
         IN /\ matcher_book' = r.book
            /\ result' = Result(IF r.ok THEN "Ok" ELSE r.err)
    /\ calls' = calls + 1
    /\ incoming' = NoOrder
    /\ matched' = <<>>
    /\ UNCHANGED <<last_sequence, last_mark_price, halted, KILL_SWITCH, kill_switch, loop,
                   accounts, positions, order_book, queue, rl_count, insurance_fund, log,
                   sequence_counter, ev, replay, taskVars>>

BookMatchOrder ==
    /\ calls < MaxCalls
    /\ \E order \in BookOrders({TakerOrderId}, {"GTC", "IOC"}) :
         LET r == match_order(matcher_book, order, accounts, last_mark_price)
         IN /\ matcher_book' = r.book
            /\ accounts' = r.accounts
            /\ result' = Result(IF r.ok THEN "Ok" ELSE r.err)
    /\ incoming' = NoOrder
    /\ matched' = <<>>
    /\ calls' = calls + 1
    /\ UNCHANGED <<last_sequence, last_mark_price, halted, KILL_SWITCH, kill_switch, loop,
                   positions, order_book, queue, rl_count, insurance_fund, log,
                   sequence_counter, ev, replay, taskVars>>

NextBook == BookAddOrder \/ BookRemoveOrder \/ BookMatchOrder

SpecBook == InitBook /\ [][NextBook]_vars

QueuedIds(levels) ==
    UNION {{levels[p].orders[i].order_id : i \in 1..Len(levels[p].orders)} :
              p \in DOMAIN levels}

QueuedCount(levels, id) ==
    Cardinality({<<p, i>> \in UNION {{<<q, j>> : j \in 1..Len(levels[q].orders)} :
                                        q \in DOMAIN levels} :
                    levels[p].orders[i].order_id = id})

\* C10: after any sequence of add_order, remove_order and match_order every
\* level's total_quantity is the sum of (quantity - filled) over its queue, every
\* indexed id is queued exactly once, every queued order is indexed, and no
\* level is empty.
C10_BookConsistent ==
    /\ check_order_book_consistency(matcher_book)
    /\ \A id \in DOMAIN matcher_book.orders :
         QueuedCount(matcher_book.bids, id) + QueuedCount(matcher_book.asks, id) = 1
    /\ QueuedIds(matcher_book.bids) \cup QueuedIds(matcher_book.asks)
          \subseteq DOMAIN matcher_book.orders
    /\ \A p \in DOMAIN matcher_book.bids : matcher_book.bids[p].orders # <<>>
    /\ \A p \in DOMAIN matcher_book.asks : matcher_book.asks[p].orders # <<>>

(***************************************************************************)
(* The Matcher on its own book, as main wires it: orders come to rest      *)
(* there and are matched there, by Matcher::match_order alone (cancels go  *)
(* to the book of the processor).  Each call is recorded with the order it *)
(* was given and the trades it returned.                                   *)
(***************************************************************************)
MaxMatchCalls == 3

TimeInForce == {"GTC", "IOC", "FOK"}

MatchOrder ==
    /\ calls < MaxMatchCalls
    /\ \E order \in BookOrders(OrderIds \cup {TakerOrderId}, TimeInForce) :
         LET r == match_order(matcher_book, order, accounts, last_mark_price)
         IN /\ matcher_book' = r.book
            /\ accounts' = r.accounts
            /\ result' = Result(IF r.ok THEN "Ok" ELSE r.err)
            /\ incoming' = order
            /\ matched' = IF r.ok THEN r.trades ELSE <<>>
    /\ calls' = calls + 1
    /\ UNCHANGED <<last_sequence, last_mark_price, halted, KILL_SWITCH, kill_switch, loop,
                   positions, order_book, queue, rl_count, insurance_fund, log,
                   sequence_counter, ev, replay, taskVars>>

NextMatch == MatchOrder

SpecMatch == InitBook /\ [][NextMatch]_vars

\* the order with this id as it rests in the Matcher's book before the call
RestingMaker(id) == matcher_book.orders[id]

\* C12: every trade returned by match_order is priced at the price of the maker
\* order that was resting in the book, and the limit price of the incoming
\* order crosses that price (at or above it for a buy, at or below for a sell).
C12_TradeAtMakerPrice ==
    [][\A i \in 1..Len(matched') :
          /\ matched'[i].maker_order_id \in DOMAIN matcher_book.orders
          /\ matched'[i].price = RestingMaker(matched'[i].maker_order_id).price
          /\ incoming'.side = "Buy" => incoming'.price >= matched'[i].price
          /\ incoming'.side = "Sell" => incoming'.price <= matched'[i].price]_vars

\* one incoming order has traded with two makers at two prices, the first of
\* them better than its own limit
C12_Witness ==
    /\ Len(matched) = 2
    /\ matched[1].price # matched[2].price
    /\ matched[1].price # incoming.price

\* price p is strictly better than price q for orders resting on this side
BetterPrice(side, p, q) == IF side = "Buy" THEN p > q ELSE p < q

\* in queue q the order at position k was inserted before the order with this id
QueuedBefore(q, k, id) == \E km \in 1..Len(q) : q[km].order_id = id /\ k < km

\* the trades before the i-th one have filled what was left of order o
FilledEarlier(o, i) ==
    \E j \in 1..(i - 1) :
        matched'[j].maker_order_id = o.order_id /\ matched'[j].quantity = Remaining(o)

\* the queue of the level at price p, empty when there is no such level
QueueAt(levels, p) == IF p \in DOMAIN levels THEN levels[p].orders ELSE <<>>

\* the incoming order has come to rest in this call
CameToRest ==
    /\ incoming'.order_id \in DOMAIN matcher_book'.orders
    /\ incoming'.order_id \notin DOMAIN matcher_book.orders

\* the queue at the incoming order's price is the queue as it was, followed by
\* the incoming order
QueuedLast ==
    LET q == QueueAt(SideLevels(matcher_book', incoming'.side), incoming'.price)
    IN /\ q # <<>>
       /\ q[Len(q)].order_id = incoming'.order_id
       /\ SubSeq(q, 1, Len(q) - 1) =
             QueueAt(SideLevels(matcher_book, incoming'.side), incoming'.price)

\* C13: a match_order call fills makers in price-time priority and returns the
\* trades in that order: when the i-th trade fills a maker, every other order
\* that was resting on the maker's side with unfilled quantity at a strictly
\* better price, or at the same price and earlier in the queue, has been filled
\* completely by the trades before it, the orders of the incoming order's own
\* user (removed by the self-trade policy) excepted; and an order that comes to
\* rest is queued behind the orders already resting at its price.
C13_PriceTimePriority ==
    [][/\ CameToRest => QueuedLast
       /\ \A i \in 1..Len(matched') :
             LET t == matched'[i]
                 levels == SideLevels(matcher_book, t.maker_side)
             IN /\ t.price \in DOMAIN levels
                /\ \A p \in DOMAIN levels : \A k \in 1..Len(levels[p].orders) :
                      (/\ levels[p].orders[k].order_id # t.maker_order_id
                       /\ levels[p].orders[k].user_id # incoming'.user_id
                       /\ Remaining(levels[p].orders[k]) > 0
                       /\ \/ BetterPrice(t.maker_side, p, t.price)
                          \/ /\ p = t.price
                             /\ QueuedBefore(levels[p].orders, k, t.maker_order_id))
                      => FilledEarlier(levels[p].orders[k], i)]_vars

\* a maker was filled while another user's order stays behind it at its price,
\* or two makers were filled one after the other
C13_Witness ==
    /\ matched # <<>>
    /\ \/ Len(matched) = 2
       \/ /\ matched[1].price \in DOMAIN SideLevels(matcher_book, matched[1].maker_side)
          /\ \E k \in 1..Len(SideLevels(matcher_book, matched[1].maker_side)[matched[1].price].orders) :
                LET o == SideLevels(matcher_book, matched[1].maker_side)[matched[1].price].orders[k]
                IN /\ o.order_id # matched[1].maker_order_id
                   /\ o.user_id # incoming.user_id
                   /\ Remaining(o) > 0

\* a resting order at price p is within the limit of an incoming order
Crosses(side, limit, p) == IF side = "Buy" THEN limit >= p ELSE limit <= p

QueuedOrders(levels) ==
    UNION {{levels[p].orders[k] : k \in 1..Len(levels[p].orders)} : p \in DOMAIN levels}

\* the orders resting before the call against which the incoming order can match
CrossingMakers ==
    {o \in QueuedOrders(SideLevels(matcher_book, Opposite(incoming'.side))) :
        Crosses(incoming'.side, incoming'.price, o.price)}

OwnCrossingMakers == {o \in CrossingMakers : o.user_id = incoming'.user_id}

\* order o has left the queues and the index of the book after the call
Cancelled(o) ==
    /\ o.order_id \notin QueuedIds(SideLevels(matcher_book', o.side))
    /\ \/ o.order_id \notin DOMAIN matcher_book'.orders
       \/ matcher_book'.orders[o.order_id].side # o.side

\* C14: under the self-trade policy of the code (CancelMaker) no trade has the
\* same user as maker and taker; a resting order of the incoming order's user
\* that matching reaches is taken out of its level and of the index without a
\* fill, the level totals staying the sums of what is left in the queues, and
\* matching goes on; so a GTC order that finds only orders of its own user to
\* match removes them all, trades nothing and comes to rest at its own price.
C14_SelfTradeCancelsMaker ==
    [][/\ \A i \in 1..Len(matched') :
             matched'[i].maker_user_id # matched'[i].taker_user_id
       /\ \A o \in OwnCrossingMakers :
             \/ Cancelled(o)
             \/ o \in QueuedOrders(SideLevels(matcher_book', o.side))
       /\ check_order_book_consistency(matcher_book) =>
             check_order_book_consistency(matcher_book')
       /\ (/\ incoming'.order_id # 0
           /\ CrossingMakers = OwnCrossingMakers
           /\ incoming'.time_in_force = "GTC"
           /\ result'.kind = "Ok") =>
             /\ matched' = <<>>
             /\ \A o \in OwnCrossingMakers : Cancelled(o)
             /\ incoming'.order_id \in DOMAIN matcher_book'.orders
             /\ matcher_book'.orders[incoming'.order_id] = incoming'
             /\ QueuedLast]_vars

\* a GTC order has removed the resting order of its own user and rests alone
\* in the book, the margin of the removed order still reserved
C14_Witness ==
    /\ calls = 2
    /\ result.kind = "Ok"
    /\ matched = <<>>
    /\ incoming.order_id # 0
    /\ incoming.time_in_force = "GTC"
    /\ DOMAIN matcher_book.orders = {incoming.order_id}
    /\ accounts[incoming.user_id].reserved_margin >
          calculate_order_margin(incoming, last_mark_price)

\* C15: a FOK order is all-or-nothing: a match_order call for it either fills
\* its whole quantity, or returns no trade and leaves the book (the makers and
\* their filled quantities included) and the accounts as they were.
C15_FillOrKill ==
    [][(incoming'.order_id # 0 /\ incoming'.time_in_force = "FOK") =>
          \/ TradedQuantity(matched') = incoming'.quantity
          \/ /\ matched' = <<>>
             /\ matcher_book' = matcher_book
             /\ accounts' = accounts]_vars

(***************************************************************************)
(* The live path of a trade.  Orders are submitted through process_event   *)
(* at prices of a size where the fee rates matter; prices, balances and    *)
(* fees are here raw Balance and Price units (the i64 inside), the mark    *)
(* price is the one a price update has left.  Two funded accounts, up to   *)
(* two submits: a resting order and the order that trades with it.         *)
(***************************************************************************)
MaxSubmitCalls == 2

\* the balance both accounts have been credited with by deposits
SubmitDeposit == 1000

RawPrices == {3000, 500000}

RawSubmits ==
    {SubmitPayload(u, id, side, "Limit", TRUE, p, q, tif, FALSE, FALSE) :
        u \in Users, id \in OrderIds, side \in Sides, p \in RawPrices, q \in Quantities,
        tif \in {"GTC", "IOC"}}

InitSubmit ==
    /\ InitCommon
    /\ accounts = [u \in Users |-> [NewAccount EXCEPT !.balance = SubmitDeposit]]

IngestSubmit ==
    /\ loop = "running"
    /\ calls < MaxSubmitCalls
    /\ \E pl \in RawSubmits :
         \E env \in EnvFor(State, MakeEvent(last_sequence + 1, <<"OrderSubmit", pl>>, TRUE)) :
            Ingested(MakeEvent(last_sequence + 1, <<"OrderSubmit", pl>>, TRUE),
                     process_event(State,
                                   MakeEvent(last_sequence + 1, <<"OrderSubmit", pl>>, TRUE),
                                   env))
    /\ UNCHANGED replay

NextSubmit == IngestSubmit

SpecSubmit == InitSubmit /\ [][NextSubmit]_vars

\* num / den rounded to the nearest integer, for num >= 0
RoundDiv(num, den) == (2 * num + den) \div (2 * den)

\* num / den rounded up, for num >= 0
CeilDiv(num, den) == (num + den - 1) \div den

\* the trade that the call has sent to the log
EmittedTrade == log'[Len(log')].payload.trade

\* C16: for every trade of an applied OrderSubmit the maker fee is the notional
\* (quantity * price) times the maker rate, rounded to the nearest unit, the
\* taker fee is the notional times the taker rate, rounded up, and the balances
\* of maker and taker go down by exactly these amounts (a notional of 500000
\* at the rates 0.0002 and 0.0005: 100 and 250).
C16_FeesChargedAtRates ==
    [][(Applied /\ Len(log') = Len(log) + 1) =>
          /\ EmittedTrade.maker_fee =
                RoundDiv(EmittedTrade.quantity * EmittedTrade.price * maker_fee_rate_num,
                         fee_rate_den)
          /\ EmittedTrade.taker_fee =
                CeilDiv(EmittedTrade.quantity * EmittedTrade.price * taker_fee_rate_num,
                        fee_rate_den)
          /\ accounts'[EmittedTrade.maker_user_id].balance =
                accounts[EmittedTrade.maker_user_id].balance - EmittedTrade.maker_fee
          /\ accounts'[EmittedTrade.taker_user_id].balance =
                accounts[EmittedTrade.taker_user_id].balance - EmittedTrade.taker_fee]_vars

PositionSize(pos, u) == IF u \in DOMAIN pos THEN pos[u].size ELSE 0

Buyer(t) == IF t.maker_side = "Buy" THEN t.maker_user_id ELSE t.taker_user_id
Seller(t) == IF t.maker_side = "Buy" THEN t.taker_user_id ELSE t.maker_user_id

\* C17: an applied OrderSubmit that trades moves the buyer's position by
\* +quantity and the seller's by -quantity, the maker in the direction of the
\* side of its resting order and the taker the other way; a position opened by
\* the trade has the trade price as entry price (a resting sell of 10 at 50000
\* hit by a buy of 10: maker -10, taker +10, entry 50000).
C17_TradeMovesPositions ==
    [][(Applied /\ Len(log') = Len(log) + 1) =>
          /\ PositionSize(positions', Buyer(EmittedTrade)) =
                PositionSize(positions, Buyer(EmittedTrade)) + EmittedTrade.quantity
          /\ PositionSize(positions', Seller(EmittedTrade)) =
                PositionSize(positions, Seller(EmittedTrade)) - EmittedTrade.quantity
          /\ \A u \in {Buyer(EmittedTrade), Seller(EmittedTrade)} :
                PositionSize(positions, u) = 0 =>
                    positions'[u].entry_price = EmittedTrade.price]_vars

\* what process_trade makes of the state before the call when it is given the
\* Trade event that the call has sent to the log
ReplayedTrade == process_trade(State, log'[Len(log')])

\* C18: process_trade, the replay path, applied to the Trade event that an
\* OrderSubmit has emitted, changes the positions (size, entry price, realized
\* PnL) and the balances exactly as process_order_submit, the live path, has
\* changed them for that trade.
C18_ReplayMatchesLive ==
    [][(Applied /\ Len(log') = Len(log) + 1) =>
          /\ ReplayedTrade.err = "None"
          /\ ReplayedTrade.s.positions = positions'
          /\ \A u \in DOMAIN accounts' :
                ReplayedTrade.s.accounts[u].balance = accounts'[u].balance]_vars

(***************************************************************************)
(* Snapshots (event_log/snapshot.rs, event_log/snapshot_manager.rs) and    *)
(* EventProcessor::restore_from_snapshot.  A snapshot is taken of the      *)
(* running engine and restored into a fresh processor, which goes on with  *)
(* the events that follow; replay tells whether this has happened.         *)
(***************************************************************************)
\* SnapshotManager::create_snapshot: the accounts of the balance manager, the
\* positions, the sequence and the mark price it is given
create_snapshot(sequence, accts, pos, mark_price) ==
    [sequence |-> sequence, accounts |-> accts, positions |-> pos,
     mark_price |-> mark_price]

\* a processor just built by EventProcessor::new_with_dependencies with new
\* components; the log is the topic, which stays
FreshState(topic) ==
    [last_sequence |-> InitialLastSequence, last_mark_price |-> DefaultMarkPrice,
     halted |-> FALSE, KILL_SWITCH |-> FALSE, accounts |-> EmptyMap,
     positions |-> EmptyMap, order_book |-> NewOrderBook,
     matcher_book |-> NewOrderBook, queue |-> <<>>, rl_count |-> 0,
     insurance_fund |-> InitialInsuranceFund, log |-> topic,
     sequence_counter |-> InitialSequenceCounter]

\* the loop over snapshot.accounts: create_account, then adjust_balance with
\* the balance of the snapshot
RestoredAccount(account, user_id) ==
    adjust_balance(create_account(EmptyMap, user_id).accounts, user_id,
                   account.balance).accounts[user_id]

restore_from_snapshot(s, snapshot) ==
    [s EXCEPT !.accounts = [u \in DOMAIN snapshot.accounts |->
                               RestoredAccount(snapshot.accounts[u], u)],
              !.positions = snapshot.positions,
              !.last_sequence = snapshot.sequence]

RestoreFromSnapshot ==
    /\ replay = "idle"
    /\ SetState(restore_from_snapshot(FreshState(log),
                    create_snapshot(last_sequence, accounts, positions, last_mark_price)))
    /\ replay' = "restored"
    /\ kill_switch' = FALSE
    /\ loop' = "running"
    /\ UNCHANGED <<ev, result, calls, matchVars, taskVars>>

NextRestore == IngestSubmit \/ RestoreFromSnapshot

SpecRestore == InitSubmit /\ [][NextRestore]_vars

\* C19: a snapshot taken after any prefix of the events and restored into a
\* fresh processor gives the state the original processor has at that point
\* (balances and reserved margins, positions, order book contents, mark price,
\* last_sequence), so that the events that follow, none included, lead both to
\* the same final state.
C19_RestoreGivesSameState ==
    [][(replay = "idle" /\ replay' = "restored") =>
          /\ accounts' = accounts
          /\ positions' = positions
          /\ order_book' = order_book
          /\ matcher_book' = matcher_book
          /\ last_mark_price' = last_mark_price
          /\ last_sequence' = last_sequence]_vars

(***************************************************************************)
(* Funding.  Funding events alone are delivered to process_event, for the  *)
(* accounts that deposits have created: both users or one of them.         *)
(***************************************************************************)
\* the balance the accounts have been credited with by deposits
FundingDeposit == 4

InitFunding ==
    /\ InitCommon
    /\ \E funded \in (SUBSET Users) \ {{}} :
         accounts = [u \in funded |-> [NewAccount EXCEPT !.balance = FundingDeposit]]

IngestFunding ==
    /\ loop = "running"
    /\ calls < MaxCalls
    /\ \E pl \in FundingPayloads :
         Ingested(MakeEvent(last_sequence + 1, <<"Funding", pl>>, TRUE),
                  process_event(State, MakeEvent(last_sequence + 1, <<"Funding", pl>>, TRUE),
                                NoEnv))
    /\ UNCHANGED replay

NextFunding == IngestFunding

SpecFunding == InitFunding /\ [][NextFunding]_vars

BalanceOf(accts, u) == IF u \in DOMAIN accts THEN accts[u].balance ELSE 0

TotalBalance(accts) == SeqSum([u \in 1..Cardinality(Users) |-> BalanceOf(accts, u)])

\* C20: a Funding event is zero-sum on the balances whatever it returns (Ok,
\* FundingNotZeroSum or another error): the sum of all balances is the same
\* after it as before, and an event whose payments do not sum to zero changes
\* no balance at all.
C20_FundingZeroSum ==
    [][Called =>
          /\ TotalBalance(accounts') = TotalBalance(accounts)
          /\ result'.kind = "FundingNotZeroSum" => accounts' = accounts]_vars

(***************************************************************************)
(* The book of the processor: process_order_submit inserts every accepted  *)
(* order into it with add_order, process_order_cancel removes from it.     *)
(***************************************************************************)
Crossed(book) ==
    /\ best_bid(book) # 0
    /\ best_ask(book) # 0
    /\ best_bid(book) >= best_ask(book)

\* C11: after every applied event that changed the book of the processor (an
\* OrderSubmit or an OrderCancel), a book with both a best bid and a best ask
\* has best bid < best ask.
C11_BookNeverCrossed ==
    [][(Applied /\ order_book' # order_book) => ~Crossed(order_book')]_vars

(***************************************************************************)
(* Liquidation events.  Two funded accounts submit orders through          *)
(* process_event (scaled units, as in the running engine), which opens     *)
(* positions and leaves liquidity in the matcher's book; Liquidation       *)
(* events then name a user.                                                *)
(***************************************************************************)
MaxLiquidationCalls == 4

\* the balance both accounts have been credited with by deposits
LiquidationDeposit == 4

\* RiskConfig::default: maintenance_margin_rate 0.05
maintenance_margin_rate_num == 5
maintenance_margin_rate_den == 100

\* Ratio::from(f64::INFINITY): the cast saturates at the largest integer
RatioInfinity == 2147483647

calculate_unrealized_pnl(position, mark_price) ==
    IF position.size = 0 THEN 0
    ELSE position.size * (mark_price - position.entry_price)

calculate_maintenance_margin(position_size, mark_price) ==
    (position_size * mark_price)
        * BalanceFromF64(maintenance_margin_rate_num, maintenance_margin_rate_den)

\* Ratio::from(num / den) for den > 0, rounded as RatioFromFraction rounds; the
\* quotient is taken first to keep the intermediate values small, and a ratio
\* beyond the largest integer saturates as the cast does
RatioOfBalances(num, den) ==
    LET q == Abs(num) \div den
        rem == Abs(num) % den
        r == IF q >= RatioInfinity \div RATIO_MULTIPLIER THEN RatioInfinity
             ELSE q * RATIO_MULTIPLIER + (2 * rem * RATIO_MULTIPLIER + den) \div (2 * den)
    IN IF num < 0 THEN -r ELSE r

calculate_margin_ratio(balance, unrealized_pnl, maintenance_margin) ==
    IF maintenance_margin = 0 THEN RatioInfinity
    ELSE RatioOfBalances(balance + unrealized_pnl, maintenance_margin)

is_liquidatable(margin_ratio) == margin_ratio < RATIO_MULTIPLIER

InitLiquidation ==
    /\ InitCommon
    /\ accounts = [u \in Users |-> [NewAccount EXCEPT !.balance = LiquidationDeposit]]

\* three order ids: two orders that trade and one that is left in the book
LiquidationSubmits ==
    {SubmitPayload(u, id, side, "Limit", TRUE, p, q, "GTC", FALSE, FALSE) :
        u \in Users, id \in OrderIds \cup {TakerOrderId}, side \in Sides, p \in Prices,
        q \in Quantities}

IngestOrder ==
    /\ loop = "running"
    /\ calls < MaxLiquidationCalls
    /\ \E pl \in LiquidationSubmits :
         \E env \in EnvFor(State, MakeEvent(last_sequence + 1, <<"OrderSubmit", pl>>, TRUE)) :
            Ingested(MakeEvent(last_sequence + 1, <<"OrderSubmit", pl>>, TRUE),
                     process_event(State,
                                   MakeEvent(last_sequence + 1, <<"OrderSubmit", pl>>, TRUE),
                                   env))
    /\ UNCHANGED replay

NextLiquidationEvent(pl) == MakeEvent(last_sequence + 1, <<"Liquidation", pl>>, TRUE)

\* the step is the processing of a Liquidation event of payload pl
LiquidationStep(pl, env) ==
    /\ Ingested(NextLiquidationEvent(pl), process_event(State, NextLiquidationEvent(pl), env))
    /\ UNCHANGED replay

IngestLiquidation ==
    /\ loop = "running"
    /\ calls < MaxLiquidationCalls
    /\ \E pl \in LiquidationPayloads :
         \E env \in EnvFor(State, NextLiquidationEvent(pl)) : LiquidationStep(pl, env)

NextLiquidation == IngestOrder \/ IngestLiquidation

SpecLiquidation == InitLiquidation /\ [][NextLiquidation]_vars

\* the step has executed a liquidation for the user of pl: execute_next has
\* returned Ok(Some(event)) and the position has been reduced (nothing is sent
\* to the log, unlike the trades of an order)
Executed(pl, env) ==
    /\ result'.kind = "Ok"
    /\ positions' # positions
    /\ log' = log
    /\ LiquidationStep(pl, env)

\* the margin ratio of a user's position at the mark price and against the
\* maintenance margin that a Liquidation event carries
MarginRatioAt(user_id, pl) ==
    calculate_margin_ratio(accounts[user_id].balance,
                           calculate_unrealized_pnl(positions[user_id], pl.mark_price),
                           pl.maintenance_margin)

\* the margin ratio as the liquidation monitor computes it
MonitorMarginRatio(user_id, mark_price) ==
    calculate_margin_ratio(accounts[user_id].balance,
                           calculate_unrealized_pnl(positions[user_id], mark_price),
                           calculate_maintenance_margin(Abs(positions[user_id].size),
                                                        mark_price))

\* C21: a Liquidation event is executed (an order matched, the position
\* reduced) only for a user whose margin ratio (balance + unrealized_pnl) /
\* maintenance_margin is below 1.0 when the event is processed, whether the
\* maintenance margin is the one of the event or the one calculated from the
\* position, and the candidate carries that ratio.
C21_OnlyLiquidatableIsLiquidated ==
    [][\A pl \in LiquidationPayloads :
         \A env \in EnvFor(State, NextLiquidationEvent(pl)) :
            Executed(pl, env) =>
               /\ \/ is_liquidatable(MarginRatioAt(pl.user_id, pl))
                  \/ is_liquidatable(MonitorMarginRatio(pl.user_id, pl.mark_price))
               /\ LiquidationCandidate(pl, positions[pl.user_id]).margin_ratio
                     \in {MarginRatioAt(pl.user_id, pl),
                          MonitorMarginRatio(pl.user_id, pl.mark_price)}]_vars

\* the liquidated_size of the event that execute_next returns for the
\* Liquidation event of payload pl
LiquidatedSize(pl, env) ==
    execute_next([State EXCEPT !.queue = Append(@, LiquidationCandidate(pl,
                                                      positions[pl.user_id]))],
                 env).liquidated

\* the account of user_id is at or above the target after the step: its
\* collateral is at least 15% of the position's value at the mark price, or
\* its margin ratio against the event's maintenance margin is at least 0.15
AtTargetAfter(user_id, pl) ==
    \/ (accounts'[user_id].balance
          + calculate_unrealized_pnl(positions'[user_id], pl.mark_price)) * 100
         >= TARGET_MARGIN_RATIO_pct * Abs(positions'[user_id].size) * pl.mark_price
    \/ calculate_margin_ratio(accounts'[user_id].balance,
                              calculate_unrealized_pnl(positions'[user_id], pl.mark_price),
                              pl.maintenance_margin)
         >= (TARGET_MARGIN_RATIO_pct * RATIO_MULTIPLIER) \div 100

\* C22: an executed liquidation moves the user's position toward zero by
\* exactly the liquidated quantity; a full one (the whole size liquidated)
\* removes the position, a partial one leaves the rest of it with the account
\* at or above the target margin ratio.
C22_LiquidationReducesPosition ==
    [][\A pl \in LiquidationPayloads :
         \A env \in EnvFor(State, NextLiquidationEvent(pl)) :
            Executed(pl, env) =>
               /\ LiquidatedSize(pl, env) \in 1..Abs(positions[pl.user_id].size)
               /\ IF LiquidatedSize(pl, env) = Abs(positions[pl.user_id].size)
                  THEN pl.user_id \notin DOMAIN positions'
                  ELSE /\ pl.user_id \in DOMAIN positions'
                       /\ positions'[pl.user_id].size =
                             IF positions[pl.user_id].size > 0
                             THEN positions[pl.user_id].size - LiquidatedSize(pl, env)
                             ELSE positions[pl.user_id].size + LiquidatedSize(pl, env)
                       /\ AtTargetAfter(pl.user_id, pl)]_vars

(***************************************************************************)
(* Timestamp::now (types/timestamp.rs): the process-wide hybrid logical    *)
(* clock, called by the tasks of the runtime's worker threads.  Each       *)
(* atomic operation of HybridLogicalClock::now is one step of a thread.    *)
(***************************************************************************)
\* calls of now() in one behaviour
MaxNowCalls == 3

\* what SystemTime::now() reads, in milliseconds: it may stand still or go back
WallClocks == {1, 2}

InitClock == InitCommon /\ accounts = EmptyMap

clockFrame == <<last_sequence, last_mark_price, halted, KILL_SWITCH, kill_switch, loop,
                accounts, positions, order_book, matcher_book, queue, rl_count,
                insurance_fund, log, sequence_counter, ev, result, calls, replay,
                incoming, matched, ticks, auxVars>>

InFlight == Cardinality({t \in Threads : threads[t].pc # "idle"})

\* the thread enters now() and reads the wall clock; seen is the number of
\* timestamps returned before the call began
CallNow(t) ==
    /\ threads[t].pc = "idle"
    /\ Len(returned) + InFlight < MaxNowCalls
    /\ \E wall_clock \in WallClocks :
         threads' = [threads EXCEPT ![t] =
                        [pc |-> "load_physical", wall_clock |-> wall_clock,
                         last_physical |-> 0, last_logical |-> 0,
                         seen |-> Len(returned)]]
    /\ UNCHANGED <<HLC, returned, clockFrame>>

LoadPhysical(t) ==
    /\ threads[t].pc = "load_physical"
    /\ threads' = [threads EXCEPT ![t].last_physical = HLC.last_physical,
                                  ![t].pc = "load_logical"]
    /\ UNCHANGED <<HLC, returned, clockFrame>>

LoadLogical(t) ==
    /\ threads[t].pc = "load_logical"
    /\ threads' = [threads EXCEPT ![t].last_logical = HLC.last_logical,
                                  ![t].pc = "compare_exchange"]
    /\ UNCHANGED <<HLC, returned, clockFrame>>

new_physical(th) ==
    IF th.wall_clock > th.last_physical THEN th.wall_clock ELSE th.last_physical

new_logical(th) ==
    IF th.wall_clock > th.last_physical THEN 0 ELSE th.last_logical + 1

\* compare_exchange(last_physical, new_physical): a failure starts the loop again
CompareExchange(t) ==
    /\ threads[t].pc = "compare_exchange"
    /\ IF HLC.last_physical = threads[t].last_physical
       THEN /\ HLC' = [HLC EXCEPT !.last_physical = new_physical(threads[t])]
            /\ threads' = [threads EXCEPT ![t].pc = "store_logical"]
       ELSE /\ threads' = [threads EXCEPT ![t].pc = "load_physical"]
            /\ UNCHANGED HLC
    /\ UNCHANGED <<returned, clockFrame>>

\* last_logical.store(new_logical) and the return of the Timestamp
StoreLogical(t) ==
    /\ threads[t].pc = "store_logical"
    /\ HLC' = [HLC EXCEPT !.last_logical = new_logical(threads[t])]
    /\ returned' = Append(returned, [physical |-> new_physical(threads[t]),
                                     logical |-> new_logical(threads[t]),
                                     seen |-> threads[t].seen])
    /\ threads' = [threads EXCEPT ![t] = IdleThread]
    /\ UNCHANGED clockFrame

NextClock ==
    \/ \E t \in Threads : CallNow(t)
    \/ \E t \in Threads : LoadPhysical(t)
    \/ \E t \in Threads : LoadLogical(t)
    \/ \E t \in Threads : CompareExchange(t)
    \/ \E t \in Threads : StoreLogical(t)

SpecClock == InitClock /\ [][NextClock]_vars

\* the derived order of Timestamp: physical first, then logical
TimestampLess(a, b) ==
    a.physical < b.physical \/ (a.physical = b.physical /\ a.logical < b.logical)

\* C23: no two calls of Timestamp::now() return equal timestamps, and a call
\* returns a timestamp strictly greater than every timestamp that had been
\* returned when it began, whatever the wall clock reads and however the
\* calls of the threads interleave.
C23_NowStrictlyIncreases ==
    \A j \in 1..Len(returned) :
        /\ \A i \in 1..Len(returned) :
              i # j => <<returned[i].physical, returned[i].logical>>
                          # <<returned[j].physical, returned[j].logical>>
        /\ \A i \in 1..returned[j].seen : TimestampLess(returned[i], returned[j])

(***************************************************************************)
(* The funding applicator (funding/applicator.rs, payment_calculator.rs,   *)
(* rate_calculator.rs), in raw units.  A FundingRate is kept as the        *)
(* fraction num / max_funding_rate_den.                                    *)
(***************************************************************************)
\* FundingConfig::default: max_funding_rate 0.0005
max_funding_rate_num == 5
max_funding_rate_den == 10000

calculate_premium(mark_price, index_price) == mark_price - index_price

\* clamp(premium / index_price, -max, +max); the prices of the model give a
\* premium of zero or one beyond the clamp
calculate_rate(premium, index_price) ==
    IF Abs(premium) >= (index_price * max_funding_rate_num + max_funding_rate_den - 1)
                           \div max_funding_rate_den
    THEN IF premium > 0 THEN max_funding_rate_num ELSE -max_funding_rate_num
    ELSE TruncDiv(premium * max_funding_rate_den, index_price)

\* Balance::from_f64 of the signed payment: truncated toward zero
calculate_payment(position, mark_price, funding_rate) ==
    IF position.size = 0 THEN 0
    ELSE IF position.size > 0
    THEN -TruncDiv(Abs(position.size) * mark_price * funding_rate, max_funding_rate_den)
    ELSE TruncDiv(Abs(position.size) * mark_price * funding_rate, max_funding_rate_den)

RECURSIVE Ascending(_)
Ascending(S) == IF S = {} THEN <<>> ELSE <<Min(S)>> \o Ascending(S \ {Min(S)})

\* one payment for every position that is not flat
calculate_all_payments(pos, mark_price, funding_rate) ==
    [i \in 1..Cardinality({u \in DOMAIN pos : pos[u].size # 0}) |->
        Payment(Ascending({u \in DOMAIN pos : pos[u].size # 0})[i],
                calculate_payment(pos[Ascending({u \in DOMAIN pos : pos[u].size # 0})[i]],
                                  mark_price, funding_rate))]

verify_zero_sum(payments) == Abs(TotalPayments(payments)) < 1

\* the payments adjusted as ensure_zero_sum adjusts them: the largest absolute
\* payment (max_by_key: the last of several equal ones) takes the difference
ensure_zero_sum(payments) ==
    IF TotalPayments(payments) = 0 \/ payments = <<>> THEN payments
    ELSE [payments EXCEPT
            ![CHOOSE i \in 1..Len(payments) :
                 \A j \in 1..Len(payments) :
                    /\ Abs(payments[j].payment) <= Abs(payments[i].payment)
                    /\ j > i => Abs(payments[j].payment) < Abs(payments[i].payment)].payment =
                 @ - TotalPayments(payments)]

\* apply_funding once the payments are calculated (its own halted flag has no
\* writer in the program and stays false)
ApplyFunding(s, payments) ==
    IF ~verify_zero_sum(payments) THEN Ret(s, "FundingNotZeroSum")
    ELSE ApplyPayments(Ret(s, "None"), payments)

apply_funding(s, mark_price, index_price) ==
    ApplyFunding(s, calculate_all_payments(s.positions, mark_price,
                        calculate_rate(calculate_premium(mark_price, index_price),
                                       index_price)))

(***************************************************************************)
(* The background tasks of main.rs beside the event loop.  Two funded      *)
(* accounts trade through OrderSubmit events (the live path, raw units);   *)
(* the funding ticker runs in between.                                     *)
(***************************************************************************)
\* runs of the funding ticker in one behaviour
MaxTicks == 2

\* the price snapshot the task finds in its channel: mark and index price
PriceSnapshots == {<<m, x>> : m \in RawPrices, x \in RawPrices}

\* funding_ticker: one turn of its loop; received is FALSE when try_recv finds
\* no price snapshot
FundingTickerTick ==
    /\ ticks < MaxTicks
    /\ ticks' = ticks + 1
    /\ \E received \in BOOLEAN : \E snapshot \in PriceSnapshots :
         accounts' = IF received
                     THEN apply_funding(State, snapshot[1], snapshot[2]).s.accounts
                     ELSE accounts
    /\ UNCHANGED <<last_sequence, last_mark_price, halted, KILL_SWITCH, kill_switch, loop,
                   positions, order_book, matcher_book, queue, rl_count, insurance_fund,
                   log, sequence_counter, ev, result, calls, replay, matchVars, HLC,
                   threads, returned, auxVars>>

NextTasks == IngestSubmit \/ FundingTickerTick

SpecTasks == InitSubmit /\ [][NextTasks]_vars

\* C24: the balances, the positions and the two order books change only in a
\* step of the event processor, that is in a process_event call; no step of a
\* background task changes them.
C24_SingleWriter ==
    [][(\/ accounts' # accounts
        \/ positions' # positions
        \/ order_book' # order_book
        \/ matcher_book' # matcher_book) => Called]_vars

(***************************************************************************)
(* Orders submitted and cancelled.  Two funded accounts with no margin     *)
(* reserved; OrderSubmit, OrderCancel and PriceSnapshot events are         *)
(* delivered to process_event in sequence (scaled units).                  *)
(***************************************************************************)
MaxCancelCalls == 3

\* the balance both accounts have been credited with by deposits
CancelDeposit == 4

CancelEvents ==
    {<<"OrderSubmit", pl>> : pl \in ValidSubmits}
        \cup {<<"OrderCancel", pl>> : pl \in CancelPayloads}
        \cup {<<"PriceSnapshot", pl>> : pl \in PricePayloads}

InitCancel ==
    /\ InitCommon
    /\ accounts = [u \in Users |-> [NewAccount EXCEPT !.balance = CancelDeposit]]

IngestOrderEvent ==
    /\ loop = "running"
    /\ calls < MaxCancelCalls
    /\ \E tp \in CancelEvents :
         \E env \in EnvFor(State, MakeEvent(last_sequence + 1, tp, TRUE)) :
            Ingested(MakeEvent(last_sequence + 1, tp, TRUE),
                     process_event(State, MakeEvent(last_sequence + 1, tp, TRUE), env))
    /\ UNCHANGED replay

NextCancel == IngestOrderEvent

SpecCancel == InitCancel /\ [][NextCancel]_vars

\* every event so far was applied, none of them has traded, and every order
\* submitted has been cancelled since
AllOrdersCancelled ==
    /\ last_sequence = calls
    /\ positions = EmptyMap
    /\ log = <<>>
    /\ order_book.orders = EmptyMap

\* C25: cancelling an order gives back the margin its submit has reserved: once
\* every submitted order is cancelled again, with no trade made, each account
\* has the reserved_margin it had before the submits (none), whatever price
\* updates have come in between.
C25_CancelRestoresReservedMargin ==
    AllOrdersCancelled => \A u \in DOMAIN accounts : accounts[u].reserved_margin = 0

(***************************************************************************)
(* The position limit.  Two funded accounts submit orders at one price     *)
(* through process_event (scaled units); max_position_size is the largest  *)
(* single order.                                                           *)
(***************************************************************************)
MaxPositionCalls == 4

\* the balance both accounts have been credited with by deposits
PositionDeposit == 8

\* RiskConfig.max_position_size (a loaded configuration value)
max_position_size == 2

PositionSubmits ==
    {SubmitPayload(u, id, side, "Limit", TRUE, DefaultMarkPrice, q, "GTC", FALSE, FALSE) :
        u \in Users, id \in 1..MaxPositionCalls, side \in Sides, q \in Quantities}

InitPosition ==
    /\ InitCommon
    /\ accounts = [u \in Users |-> [NewAccount EXCEPT !.balance = PositionDeposit]]

IngestPositionOrder ==
    /\ loop = "running"
    /\ calls < MaxPositionCalls
    /\ \E pl \in PositionSubmits :
         \E env \in EnvFor(State, MakeEvent(last_sequence + 1, <<"OrderSubmit", pl>>, TRUE)) :
            Ingested(MakeEvent(last_sequence + 1, <<"OrderSubmit", pl>>, TRUE),
                     process_event(State,
                                   MakeEvent(last_sequence + 1, <<"OrderSubmit", pl>>, TRUE),
                                   env))
    /\ UNCHANGED replay

NextPosition == IngestPositionOrder

SpecPosition == InitPosition /\ [][NextPosition]_vars

\* C26: no OrderSubmit takes a position beyond the limit: the absolute size of
\* every position is at most max_position_size after every event.
C26_PositionWithinLimit ==
    \A u \in DOMAIN positions : Abs(positions[u].size) <= max_position_size

(***************************************************************************)
(* PreTradeRiskCheck (risk/pre_trade_check.rs).  check runs the margin,    *)
(* leverage and position-limit checks and, for a reduce_only order, the    *)
(* reduce-only check; the first failing check is the result.  SpecReduce   *)
(* hands orders to check with the user's current position and fills the    *)
(* accepted ones through PositionManager::update_position.                 *)
(***************************************************************************)
MaxReduceCalls == 3
ReduceDeposit == 4

calculate_available_balance(total_balance, unrealized_pnl, reserved_margin) ==
    (total_balance + unrealized_pnl) - reserved_margin

OrderSizeSigned(order) ==
    IF order.side = "Buy" THEN order.quantity ELSE -order.quantity

check_margin(order, position, accts, mark_price) ==
    IF order.user_id \notin DOMAIN accts THEN Result("AccountNotFound")
    ELSE IF calculate_available_balance(
                accts[order.user_id].balance,
                calculate_unrealized_pnl(position, mark_price),
                accts[order.user_id].reserved_margin)
            < calculate_initial_margin(order.quantity, mark_price)
         THEN Result("InsufficientMargin")
         ELSE Result("Ok")

\* leverage = notional / equity as f64, compared with max_leverage: a negative
\* equity gives a negative quotient, which is not above the maximum
check_leverage(order, position, accts, mark_price) ==
    LET notional == Abs(position.size + OrderSizeSigned(order)) * mark_price
        equity == accts[order.user_id].balance
                  + calculate_unrealized_pnl(position, mark_price)
    IN IF equity = 0 THEN Result("InsufficientBalance")
       ELSE IF equity > 0 /\ notional > max_leverage * equity
            THEN Result("LeverageExceeded")
            ELSE Result("Ok")

check_position_limit(order, position) ==
    IF Abs(position.size + OrderSizeSigned(order)) > max_position_size
    THEN Result("PositionLimitExceeded")
    ELSE Result("Ok")

check_reduce_only(order, position) ==
    LET is_reducing == IF order.side = "Buy" THEN position.size < 0
                       ELSE position.size > 0
    IN IF ~is_reducing THEN Result("ReduceOnlyViolation") ELSE Result("Ok")

\* the three checks that run before the reduce-only check
ChecksBeforeReduceOnly(order, position, accts, mark_price) ==
    IF check_margin(order, position, accts, mark_price).kind # "Ok"
    THEN check_margin(order, position, accts, mark_price)
    ELSE IF check_leverage(order, position, accts, mark_price).kind # "Ok"
         THEN check_leverage(order, position, accts, mark_price)
         ELSE check_position_limit(order, position)

check(order, position, accts, mark_price) ==
    IF ChecksBeforeReduceOnly(order, position, accts, mark_price).kind # "Ok"
    THEN ChecksBeforeReduceOnly(order, position, accts, mark_price)
    ELSE IF order.reduce_only THEN check_reduce_only(order, position)
         ELSE Result("Ok")

PositionOf(user_id) ==
    IF user_id \in DOMAIN positions THEN positions[user_id] ELSE NewPosition

ReduceOrders ==
    [order_id : {calls + 1}, user_id : Users, side : {"Buy", "Sell"},
     price : {DefaultMarkPrice}, quantity : Quantities, reduce_only : BOOLEAN,
     filled : {0}]

InitReduce ==
    /\ InitCommon
    /\ accounts = [u \in Users |-> [NewAccount EXCEPT !.balance = ReduceDeposit]]

reduceFrame == <<last_sequence, last_mark_price, halted, KILL_SWITCH, kill_switch, loop,
                 accounts, order_book, matcher_book, queue, rl_count, insurance_fund,
                 log, sequence_counter, ev, replay, matched, taskVars>>

\* an order is handed to PreTradeRiskCheck::check with the user's position
CheckOrder ==
    /\ calls < MaxReduceCalls
    /\ \E order \in ReduceOrders :
          /\ incoming' = order
          /\ result' = check(order, PositionOf(order.user_id), accounts, last_mark_price)
    /\ calls' = calls + 1
    /\ UNCHANGED <<positions, reduceFrame>>

\* the accepted order trades: the whole quantity or a part of it
FillOrder ==
    /\ incoming.order_id # 0
    /\ result.kind = "Ok"
    /\ incoming.filled = 0
    /\ \E q \in 1..incoming.quantity :
          /\ positions' = update_position(positions, incoming.user_id, incoming.side,
                                          q, incoming.price)
          /\ incoming' = [incoming EXCEPT !.filled = q]
    /\ UNCHANGED <<result, calls, reduceFrame>>

NextReduce == CheckOrder \/ FillOrder

SpecReduce == InitReduce /\ [][NextReduce]_vars

\* the order just checked is reduce_only and the user's position is flat or on
\* the order's side
ReduceOnlyOnWrongSide ==
    /\ incoming.order_id # 0
    /\ incoming.filled = 0
    /\ incoming.reduce_only
    /\ IF incoming.side = "Buy" THEN PositionOf(incoming.user_id).size >= 0
       ELSE PositionOf(incoming.user_id).size <= 0

\* a reduce_only order that check accepted is filled in this step
ReduceOnlyFill ==
    /\ incoming.order_id # 0
    /\ incoming.reduce_only
    /\ incoming.filled = 0
    /\ result.kind = "Ok"
    /\ positions' # positions

\* C27: a reduce_only order that passes check strictly reduces the position: it
\* is rejected (with ReduceOnlyViolation once the margin, leverage and limit
\* checks have passed) when the position is flat or on the order's side, and
\* the fill of an accepted one neither enlarges the absolute position size nor
\* flips the position's sign.
C27_ReduceOnlyReduces ==
    /\ [](ReduceOnlyOnWrongSide =>
            /\ result.kind # "Ok"
            /\ ChecksBeforeReduceOnly(incoming, PositionOf(incoming.user_id), accounts,
                                      last_mark_price).kind = "Ok"
               => result.kind = "ReduceOnlyViolation")
    /\ [][ReduceOnlyFill =>
            /\ Abs(PositionOf(incoming.user_id).size') <= Abs(PositionOf(incoming.user_id).size)
            /\ PositionOf(incoming.user_id).size' * PositionOf(incoming.user_id).size >= 0]_vars

(***************************************************************************)
(* apply_funding over the positions of three users.  The positions come    *)
(* from trades between the users, so the sizes always sum to zero; the     *)
(* funding ticker then calls apply_funding with a price snapshot.          *)
(***************************************************************************)
MaxFundingTrades == 3
MaxFundingCalls == 2
ApplicatorDeposit == 10
FundingUsers == {1, 2, 3}

InitApplicator ==
    /\ InitCommon
    /\ accounts = [u \in FundingUsers |-> [NewAccount EXCEPT !.balance = ApplicatorDeposit]]

applicatorFrame == <<last_sequence, last_mark_price, halted, KILL_SWITCH, kill_switch, loop,
                     order_book, matcher_book, queue, rl_count, insurance_fund, log,
                     sequence_counter, ev, replay, matchVars, HLC, threads, returned,
                     auxVars>>

\* a trade between two users moves both positions
SettleTrade ==
    /\ calls < MaxFundingTrades
    /\ calls' = calls + 1
    /\ \E buyer \in FundingUsers : \E seller \in FundingUsers \ {buyer} :
       \E q \in Quantities : \E p \in RawPrices :
          positions' = update_position(update_position(positions, buyer, "Buy", q, p),
                                       seller, "Sell", q, p)
    /\ UNCHANGED <<accounts, result, ticks, applicatorFrame>>

\* the funding ticker calls apply_funding with the snapshot (mark, index)
FundingCall(mark_price, index_price) ==
    /\ ticks < MaxFundingCalls
    /\ ticks' = ticks + 1
    /\ accounts' = apply_funding(State, mark_price, index_price).s.accounts
    /\ result' = Result(IF apply_funding(State, mark_price, index_price).err = "None"
                        THEN "Ok"
                        ELSE apply_funding(State, mark_price, index_price).err)
    /\ UNCHANGED <<positions, calls, applicatorFrame>>

ApplyFundingCall == \E snapshot \in PriceSnapshots : FundingCall(snapshot[1], snapshot[2])

NextApplicator == SettleTrade \/ ApplyFundingCall

SpecApplicator == InitApplicator /\ [][NextApplicator]_vars

\* the payments apply_funding calculates from the current positions
RawPayments(mark_price, index_price) ==
    calculate_all_payments(positions, mark_price,
                           calculate_rate(calculate_premium(mark_price, index_price),
                                          index_price))

\* C28: apply_funding enforces zero-sum by adjustment: whatever the rounding
\* of the raw payments, the call succeeds (never FundingNotZeroSum) and the
\* balances move by the raw payments with the largest absolute payment
\* adjusted by minus their sum, so that what is applied sums to zero.
C28_FundingAdjustedToZeroSum ==
    [][\A snapshot \in PriceSnapshots :
          FundingCall(snapshot[1], snapshot[2]) =>
             /\ result'.kind = "Ok"
             /\ accounts' = ApplyPayments(Ret(State, "None"),
                                ensure_zero_sum(RawPayments(snapshot[1], snapshot[2]))).s.accounts
             /\ SeqSum([i \in 1..Cardinality(FundingUsers) |-> accounts'[i].balance])
                   = SeqSum([i \in 1..Cardinality(FundingUsers) |-> accounts[i].balance])]_vars

(***************************************************************************)
(* The liquidation queue and the size of a liquidation                     *)
(* (liquidation/priority_queue.rs, executor.rs).  Positions come from      *)
(* trades between the users; a candidate carries a copy of its user's      *)
(* position, the mark price and a margin ratio, and is pushed by           *)
(* add_candidate; execute_next pops one and determines the size of its     *)
(* liquidation order.                                                      *)
(***************************************************************************)
MaxQueueLen == 2
MaxQueueTrades == 2
QueueDeposit == 4

\* margin ratios of candidates: 0.04, 0.10 and 0.50
CandidateRatios == {RATIO_MULTIPLIER \div 25, RATIO_MULTIPLIER \div 10, RATIO_MULTIPLIER \div 2}

Candidates ==
    {[user_id |-> u, position |-> positions[u], margin_ratio |-> r,
      maintenance_margin |-> 1, mark_price |-> p] :
        u \in DOMAIN positions, r \in CandidateRatios, p \in Prices}

InitQueue ==
    /\ InitCommon
    /\ accounts = [u \in Users |-> [NewAccount EXCEPT !.balance = QueueDeposit]]

queueFrame == <<last_sequence, last_mark_price, halted, KILL_SWITCH, kill_switch, loop,
                accounts, positions, order_book, matcher_book, rl_count, insurance_fund,
                log, sequence_counter, ev, result, calls, replay, matched, taskVars>>

\* a trade between the two users moves both positions
TradeBetweenUsers ==
    /\ calls < MaxQueueTrades
    /\ calls' = calls + 1
    /\ \E buyer \in Users : \E seller \in Users \ {buyer} :
       \E q \in Quantities : \E p \in Prices :
          positions' = update_position(update_position(positions, buyer, "Buy", q, p),
                                       seller, "Sell", q, p)
    /\ UNCHANGED <<last_sequence, last_mark_price, halted, KILL_SWITCH, kill_switch, loop,
                   accounts, order_book, matcher_book, queue, rl_count, insurance_fund,
                   log, sequence_counter, ev, result, replay, matchVars, taskVars>>

\* LiquidationExecutor::add_candidate: LiquidationPriorityQueue::push
PushCandidate ==
    /\ Len(queue) < MaxQueueLen
    /\ \E candidate \in Candidates : queue' = Append(queue, candidate)
    /\ UNCHANGED <<incoming, queueFrame>>

\* execute_next up to the liquidation order: LiquidationPriorityQueue::pop, then
\* calculate_liquidation_size for the popped candidate
PopAt(i) ==
    /\ queue' = RemoveAt(queue, i)
    /\ incoming' = LiquidationOrder(queue[i],
                       calculate_liquidation_size(queue[i], accounts[queue[i].user_id]))
    /\ UNCHANGED queueFrame

PopCandidate ==
    /\ queue # <<>>
    /\ \E tie \in BOOLEAN : PopAt(PopIndex(queue, tie))

NextQueue == TradeBetweenUsers \/ PushCandidate \/ PopCandidate

SpecQueue == InitQueue /\ [][NextQueue]_vars

\* the partial size of the specification: the notional above the target
\* notional (collateral / 0.15), in units of the mark price
TargetPartialSize(candidate) ==
    TruncDiv(Abs(candidate.position.size) * candidate.mark_price
                - TruncDiv((accounts[candidate.user_id].balance
                              + (candidate.mark_price - candidate.position.entry_price)
                                   * candidate.position.size) * 100,
                           TARGET_MARGIN_RATIO_pct),
             candidate.mark_price)

\* C29: for every candidate that is not flat, the size of the liquidation
\* order lies between 1 and the absolute position size and is never 0; it is
\* the full size when the margin ratio is below 0.05, and a size below the
\* full one is the partial size that brings the position to the target ratio.
C29_LiquidationSizeInRange ==
    [][\A i \in 1..Len(queue) :
          (PopAt(i) /\ queue[i].position.size # 0) =>
             /\ incoming'.quantity >= 1
             /\ incoming'.quantity <= Abs(queue[i].position.size)
             /\ queue[i].margin_ratio < (EMERGENCY_MARGIN_RATIO_pct * RATIO_MULTIPLIER) \div 100
                   => incoming'.quantity = Abs(queue[i].position.size)
             /\ incoming'.quantity < Abs(queue[i].position.size)
                   => incoming'.quantity = TargetPartialSize(queue[i])]_vars

\* a candidate of the lowest margin ratio leaves the queue in this step
PoppedLowest ==
    \E i \in 1..Len(queue) :
        /\ queue' = RemoveAt(queue, i)
        /\ \A j \in 1..Len(queue) : queue[i].margin_ratio <= queue[j].margin_ratio

UniquePerUser ==
    \A i, j \in 1..Len(queue) : queue[i].user_id = queue[j].user_id => i = j

\* a pop takes out a candidate of the lowest margin ratio
PopReturnsLowest == [][Len(queue') < Len(queue) => PoppedLowest]_vars

\* C30: after any sequence of push and pop the queue holds at most one
\* candidate per user, and a pop takes out a candidate whose margin ratio is
\* the lowest of those queued.
C30_QueueUniqueAndMinFirst == []UniquePerUser /\ PopReturnsLowest

(***************************************************************************)
(* Liquidation events under the rate limiter.  execute_next pushes nothing *)
(* itself: process_liquidation adds the candidate of its event and then    *)
(* calls execute_next, which asks the rate limiter before it pops.  After  *)
(* max_per_interval calls within the interval the next call is refused and *)
(* its candidate stays in the queue.                                       *)
(***************************************************************************)
MaxRateCalls == 14
\* the orders that open the positions come first
MaxRateOrders == 2

\* orders of one price and one quantity
RateSubmits ==
    {SubmitPayload(u, id, side, "Limit", TRUE, DefaultMarkPrice, 1, "GTC", FALSE, FALSE) :
        u \in Users, id \in OrderIds \cup {TakerOrderId}, side \in Sides}

\* one Liquidation event per user, of margin ratios 1/40 and 2/40
RateLiquidations ==
    {[kind |-> "Liquidation", user_id |-> u, mark_price |-> DefaultMarkPrice,
      maintenance_margin |-> u, account_value |-> 40] : u \in Users}

IngestRateOrder ==
    /\ loop = "running"
    /\ calls < MaxRateOrders
    /\ \E pl \in RateSubmits :
         \E env \in EnvFor(State, MakeEvent(last_sequence + 1, <<"OrderSubmit", pl>>, TRUE)) :
            Ingested(MakeEvent(last_sequence + 1, <<"OrderSubmit", pl>>, TRUE),
                     process_event(State,
                                   MakeEvent(last_sequence + 1, <<"OrderSubmit", pl>>, TRUE),
                                   env))
    /\ UNCHANGED replay

IngestRateLiquidation ==
    /\ loop = "running"
    /\ calls < MaxRateCalls
    /\ \E pl \in RateLiquidations :
         \E env \in EnvFor(State, NextLiquidationEvent(pl)) : LiquidationStep(pl, env)

NextRate == IngestRateOrder \/ IngestRateLiquidation

SpecRate == InitLiquidation /\ [][NextRate]_vars

\* the step processes the Liquidation event of payload pl and execute_next
\* pops a candidate in it
PoppedIn(pl, env) ==
    /\ Len(queue') <= Len(queue)
    /\ pl.user_id \in DOMAIN positions
    /\ LiquidationStep(pl, env)

\* C31: when a Liquidation event for user U is processed, the candidate that
\* execute_next takes from the queue is the one built for U from that event:
\* the queue is left as it was before the event, and a candidate that an
\* earlier refused call has left there is not executed in its place.
C31_ExecutesCandidateOfEvent ==
    [][\A pl \in RateLiquidations :
         \A env \in EnvFor(State, NextLiquidationEvent(pl)) :
            PoppedIn(pl, env) => queue' = queue]_vars

(***************************************************************************)
(* InsuranceFund (liquidation/insurance_fund.rs).  deposit and cover_loss  *)
(* take &self and work on one AtomicI64: deposit is one fetch_add,         *)
(* cover_loss is a load, a comparison and a later fetch_sub.  Two threads  *)
(* call them; ticks counts the calls begun.                                *)
(***************************************************************************)
MaxFundCalls == 4
FundAmounts == {1, 2}

fundFrame == <<last_sequence, last_mark_price, halted, KILL_SWITCH, kill_switch, loop,
               accounts, positions, order_book, matcher_book, queue, rl_count, log,
               sequence_counter, ev, calls, replay, matchVars, HLC, returned, auxVars>>

InitFund == InitCommon /\ accounts = EmptyMap

\* deposit: balance.fetch_add(amount)
FundDeposit(t) ==
    /\ threads[t].pc = "idle"
    /\ ticks < MaxFundCalls
    /\ ticks' = ticks + 1
    /\ \E amount \in FundAmounts : insurance_fund' = insurance_fund + amount
    /\ UNCHANGED <<threads, result, fundFrame>>

\* cover_loss: current = balance.load(); the call returns InsuranceFundDepleted
\* here when current < loss
CoverLossLoad(t) ==
    /\ threads[t].pc = "idle"
    /\ ticks < MaxFundCalls
    /\ ticks' = ticks + 1
    /\ \E loss \in FundAmounts :
         IF insurance_fund < loss
         THEN /\ result' = Result("InsuranceFundDepleted")
              /\ UNCHANGED threads
         ELSE /\ threads' = [threads EXCEPT ![t] =
                                [pc |-> "fetch_sub", loss |-> loss,
                                 current |-> insurance_fund]]
              /\ UNCHANGED result
    /\ UNCHANGED <<insurance_fund, fundFrame>>

\* cover_loss: balance.fetch_sub(loss) and Ok(())
CoverLossSub(t) ==
    /\ threads[t].pc = "fetch_sub"
    /\ insurance_fund' = insurance_fund - threads[t].loss
    /\ threads' = [threads EXCEPT ![t] = IdleThread]
    /\ result' = Result("Ok")
    /\ UNCHANGED <<ticks, fundFrame>>

NextFund ==
    \/ \E t \in Threads : FundDeposit(t)
    \/ \E t \in Threads : CoverLossLoad(t)
    \/ \E t \in Threads : CoverLossSub(t)

SpecFund == InitFund /\ [][NextFund]_vars

\* C32: the insurance fund is never negative, under every interleaving of
\* cover_loss and deposit calls: a cover_loss that returns Ok subtracts its
\* loss from a balance that is at least the loss, and one that returns
\* InsuranceFundDepleted leaves the balance as it is.
C32_FundNeverNegative ==
    /\ [](insurance_fund >= 0)
    /\ [][\A t \in Threads :
            /\ CoverLossSub(t) => insurance_fund >= threads[t].loss
            /\ (CoverLossLoad(t) /\ result' # result) => insurance_fund' = insurance_fund]_vars

(***************************************************************************)
(* PriceCircuitBreaker (price_infra/circuit_breaker.rs).  Prices are raw   *)
(* i64 values of a fixed point with 8 decimals.  (a - b).abs() / c.to_i64()*)
(* is Price's Div<i64>: the integer quotient of the raw values, again a    *)
(* Price, and to_f64 divides it by the multiplier.                         *)
(***************************************************************************)
PRICE_MULTIPLIER == 100000000
\* price_movement_threshold 0.10 and mark_index_deviation_threshold 0.05, as
\* fractions of 100
price_movement_threshold_pct == 10
mark_index_deviation_threshold_pct == 5
MaxBreakerCalls == 8

IndexPrices == {100, 104, 108, 120, 200}
MarkOffsets == {0, 4, 10}
StalenessFlags == {<<FALSE, FALSE>>, <<TRUE, FALSE>>, <<TRUE, TRUE>>}

BreakerSnapshots ==
    [index_price : IndexPrices, mark_offset : MarkOffsets, staleness_flags : StalenessFlags]

MarkPriceOf(snapshot) == snapshot.index_price + snapshot.mark_offset

\* (a - b).abs() / c, then to_f64() > pct / 100
RelativeAbove(a, b, c, pct) ==
    TruncDiv(Abs(a - b), c) * 100 > pct * PRICE_MULTIPLIER

PriceMovementTrips(cb, snapshot) ==
    cb.last_price # 0
        /\ RelativeAbove(snapshot.index_price, cb.last_price, cb.last_price,
                         price_movement_threshold_pct)

DeviationTrips(snapshot) ==
    RelativeAbove(MarkPriceOf(snapshot), snapshot.index_price, snapshot.index_price,
                  mark_index_deviation_threshold_pct)

AllStale(snapshot) ==
    \A i \in 1..Len(snapshot.staleness_flags) : snapshot.staleness_flags[i]

\* PriceCircuitBreaker::check: the first check that fails triggers, which sets
\* active and returns the error before last_price is updated
BreakerCheck(cb, snapshot) ==
    IF PriceMovementTrips(cb, snapshot) \/ DeviationTrips(snapshot) \/ AllStale(snapshot)
    THEN [cb |-> [cb EXCEPT !.active = TRUE], result |-> Result("CircuitBreakerTriggered")]
    ELSE [cb |-> [cb EXCEPT !.last_price = snapshot.index_price], result |-> Result("Ok")]

breakerFrame == <<last_sequence, last_mark_price, halted, KILL_SWITCH, kill_switch, loop,
                  accounts, positions, order_book, matcher_book, queue, rl_count,
                  insurance_fund, log, sequence_counter, ev, replay, matchVars, HLC,
                  threads, returned, ticks, locks, snapshot_seq>>

InitBreaker == InitCommon /\ accounts = EmptyMap

CheckSnapshot(snapshot) ==
    /\ calls < MaxBreakerCalls
    /\ calls' = calls + 1
    /\ circuit_breaker' = BreakerCheck(circuit_breaker, snapshot).cb
    /\ result' = BreakerCheck(circuit_breaker, snapshot).result
    /\ UNCHANGED breakerFrame

CheckAnySnapshot == \E snapshot \in BreakerSnapshots : CheckSnapshot(snapshot)

\* PriceCircuitBreaker::reset
ResetBreaker ==
    /\ circuit_breaker.active
    /\ circuit_breaker' = [circuit_breaker EXCEPT !.active = FALSE]
    /\ UNCHANGED <<result, calls, breakerFrame>>

NextBreaker == CheckAnySnapshot \/ ResetBreaker

SpecBreaker == InitBreaker /\ [][NextBreaker]_vars

\* the index price moved by more than 10% from the last one checked
MovedBeyondThreshold(snapshot) ==
    circuit_breaker.last_price # 0
        /\ Abs(snapshot.index_price - circuit_breaker.last_price) * 100
              > price_movement_threshold_pct * circuit_breaker.last_price

\* the mark price is more than 5% away from the index price
DeviatesBeyondThreshold(snapshot) ==
    Abs(MarkPriceOf(snapshot) - snapshot.index_price) * 100
        > mark_index_deviation_threshold_pct * snapshot.index_price

\* C33: check trips (sets active and returns CircuitBreakerTriggered) whenever
\* the index price moved by more than 10% from the previous snapshot's, or the
\* mark price deviates from the index by more than 5%, or all sources are
\* stale; once active the breaker stays active over every later check, until
\* reset.
C33_BreakerTrips ==
    [][\A snapshot \in BreakerSnapshots :
          CheckSnapshot(snapshot) =>
             /\ (\/ MovedBeyondThreshold(snapshot)
                 \/ DeviatesBeyondThreshold(snapshot)
                 \/ AllStale(snapshot))
                   => (circuit_breaker'.active /\ result'.kind = "CircuitBreakerTriggered")
             /\ circuit_breaker.active => circuit_breaker'.active]_vars

(***************************************************************************)
(* The RwLocks around the core state.  Thread 1 is the event processor,    *)
(* thread 2 a background task of main.rs; each runs the lock operations of *)
(* one handler or one turn of a task, in the order of the code.  A read is *)
(* granted while no writer holds the lock, a write while nobody holds it   *)
(* (tokio's RwLock also keeps readers behind a waiting writer: it grants   *)
(* no request that is refused here).                                       *)
(***************************************************************************)
MaxLockRuns == 3
ProcessorThread == 1
TaskThread == 2

Read(l) == [op |-> "read", lock |-> l]
Write(l) == [op |-> "write", lock |-> l]
Drop(l) == [op |-> "drop", lock |-> l]

\* the lock operations of the handlers of the event processor
ProcessorLockOps(handler) ==
    CASE handler = "process_order_submit" ->
            <<Read("balance_manager"), Read("position_manager"),
              Drop("balance_manager"), Drop("position_manager"),
              Write("balance_manager"), Drop("balance_manager"),
              Write("order_book"), Drop("order_book"),
              Write("matcher"), Write("balance_manager"),
              Drop("balance_manager"), Drop("matcher"),
              Write("position_manager"), Write("balance_manager"),
              Drop("balance_manager"), Drop("position_manager")>>
      [] handler = "process_order_cancel" ->
            <<Write("order_book"), Drop("order_book"),
              Write("balance_manager"), Read("position_manager"),
              Drop("position_manager"), Drop("balance_manager")>>
      [] handler = "process_trade" ->
            <<Write("position_manager"), Drop("position_manager"),
              Write("balance_manager"), Drop("balance_manager")>>
      [] handler = "process_liquidation" ->
            <<Read("position_manager"), Drop("position_manager"),
              Write("matcher"), Write("balance_manager"),
              Drop("matcher"), Drop("balance_manager"),
              Write("position_manager"), Drop("position_manager")>>

\* the lock operations of one turn of the background tasks
TaskLockOps(task) ==
    CASE task = "funding_ticker" ->
            <<Read("position_manager"), Write("balance_manager"),
              Drop("balance_manager"), Drop("position_manager")>>
      [] task = "liquidation_monitor" ->
            <<Read("position_manager"), Read("balance_manager"),
              Drop("balance_manager"), Drop("position_manager")>>
      [] task = "invariant_monitor" ->
            <<Read("order_book"), Read("balance_manager"), Read("position_manager"),
              Drop("position_manager"), Drop("balance_manager"), Drop("order_book")>>
      [] task = "snapshot_creator" ->
            <<Read("balance_manager"), Read("position_manager"),
              Drop("position_manager"), Drop("balance_manager")>>

Handlers == {"process_order_submit", "process_order_cancel", "process_trade",
             "process_liquidation"}
BackgroundTasks == {"funding_ticker", "liquidation_monitor", "invariant_monitor",
                    "snapshot_creator"}

LockOps(t, body) == IF t = ProcessorThread THEN ProcessorLockOps(body) ELSE TaskLockOps(body)

\* the operation the thread is about to perform
NextOp(t) == LockOps(t, threads[t].body)[threads[t].at]

Granted(t, o) ==
    CASE o.op = "read" -> locks[o.lock].writer = 0
      [] o.op = "write" -> locks[o.lock].writer = 0 /\ locks[o.lock].readers = {}
      [] o.op = "drop" -> TRUE

LockApplied(t, o) ==
    CASE o.op = "read" -> [locks EXCEPT ![o.lock].readers = @ \cup {t}]
      [] o.op = "write" -> [locks EXCEPT ![o.lock].writer = t]
      [] o.op = "drop" -> [locks EXCEPT ![o.lock] =
                              [writer |-> IF @.writer = t THEN 0 ELSE @.writer,
                               readers |-> @.readers \ {t}]]

lockFrame == <<last_sequence, last_mark_price, halted, KILL_SWITCH, kill_switch, loop,
               accounts, positions, order_book, matcher_book, queue, rl_count,
               insurance_fund, log, sequence_counter, ev, result, calls, replay,
               matchVars, HLC, returned, circuit_breaker, snapshot_seq>>

InitLocks == InitCommon /\ accounts = EmptyMap

\* the processor begins a handler, a task begins a turn
BeginRun(t) ==
    /\ threads[t].pc = "idle"
    /\ ticks < MaxLockRuns
    /\ ticks' = ticks + 1
    /\ \E body \in (IF t = ProcessorThread THEN Handlers ELSE BackgroundTasks) :
         threads' = [threads EXCEPT ![t] = [pc |-> "running", body |-> body, at |-> 1]]
    /\ UNCHANGED <<locks, lockFrame>>

\* the next lock operation of the thread, once it is granted
LockStep(t) ==
    /\ threads[t].pc = "running"
    /\ Granted(t, NextOp(t))
    /\ locks' = LockApplied(t, NextOp(t))
    /\ threads' = [threads EXCEPT ![t] =
                      IF threads[t].at = Len(LockOps(t, threads[t].body))
                      THEN IdleThread
                      ELSE [@ EXCEPT !.at = @ + 1]]
    /\ UNCHANGED <<ticks, lockFrame>>

NextLocks ==
    \/ \E t \in Threads : BeginRun(t)
    \/ \E t \in Threads : LockStep(t)

SpecLocks == InitLocks /\ [][NextLocks]_vars

\* the thread has requested a lock and is not granted it
Waiting(t) == threads[t].pc = "running" /\ ~Granted(t, NextOp(t))

\* C34: the event processor and the background tasks never deadlock on the
\* balance, position, order-book and matcher locks: there is no state in
\* which both wait for a lock, each for one that only the other can release.
C34_NoLockDeadlock == ~(\A t \in Threads : Waiting(t))

(***************************************************************************)
(* process_order_submit as the other tasks see it.  The handler takes and  *)
(* drops its locks four times: around the margin check and reservation,    *)
(* around add_order, around match_order, and around the positions and fees *)
(* of the trades.  Between two of these no lock is held, and a task that   *)
(* takes the read locks reads what the steps so far have written.  Thread  *)
(* 1 is the handler; before and after are the state at the beginning of    *)
(* the event and the state the whole handler leaves.                       *)
(***************************************************************************)
MaxStagedCalls == 2
MaxObservations == 1

CoreOf(s) == [accounts |-> s.accounts, positions |-> s.positions,
              order_book |-> s.order_book]

stagedFrame == <<kill_switch, loop, ev, replay, matchVars, HLC, ticks, auxVars>>

Handling(o, pc, before) ==
    [pc |-> pc, order |-> o, before |-> CoreOf(before),
     after |-> CoreOf(SubmitOrder(before, o, NoEnv).s)]

\* the handler returns: r is the [s, err] it has reached
Returns(r) ==
    /\ SetState(r.s)
    /\ threads' = [threads EXCEPT ![ProcessorThread] = IdleThread]
    /\ result' = Result(IF r.err = "None" THEN "Ok" ELSE r.err)

\* the handler goes on to the step pc
GoesOn(r, pc) ==
    /\ SetState(r.s)
    /\ threads' = [threads EXCEPT ![ProcessorThread].pc = pc]
    /\ UNCHANGED result

\* steps 1 to 3: validation, margin check and reservation
ReserveStep ==
    /\ threads[ProcessorThread].pc = "idle"
    /\ calls < MaxStagedCalls
    /\ calls' = calls + 1
    /\ \E o \in RateSubmits :
         IF validate(o) # "None"
         THEN Returns(Ret(State, validate(o)))
         ELSE IF PreTradeCheck(State, o.user_id,
                    calculate_initial_margin(o.quantity, last_mark_price)).err # "None"
         THEN Returns(PreTradeCheck(State, o.user_id,
                         calculate_initial_margin(o.quantity, last_mark_price)))
         ELSE /\ SetState(PreTradeCheck(State, o.user_id,
                             calculate_initial_margin(o.quantity, last_mark_price)).s)
              /\ threads' = [threads EXCEPT ![ProcessorThread] =
                                Handling(o, "add_order", State)]
              /\ UNCHANGED result
    /\ UNCHANGED <<returned, stagedFrame>>

\* step 4: the order is added to the processor's book
AddOrderStep ==
    /\ threads[ProcessorThread].pc = "add_order"
    /\ IF WithOrderBook(State, add_order(order_book,
                                         NewOrder(threads[ProcessorThread].order))).err
            # "None"
       THEN Returns(WithOrderBook(State, add_order(order_book,
                                         NewOrder(threads[ProcessorThread].order))))
       ELSE GoesOn(WithOrderBook(State, add_order(order_book,
                                         NewOrder(threads[ProcessorThread].order))),
                   "match_order")
    /\ UNCHANGED <<calls, returned, stagedFrame>>

\* what match_order returns for the order being handled
StagedMatch ==
    match_order(matcher_book, NewOrder(threads[ProcessorThread].order), accounts,
                last_mark_price)

\* step 5: the order is matched; the trades are kept for step 6
MatchStep ==
    /\ threads[ProcessorThread].pc = "match_order"
    /\ SetState([State EXCEPT !.matcher_book = StagedMatch.book,
                              !.accounts = StagedMatch.accounts])
    /\ IF ~StagedMatch.ok
       THEN /\ threads' = [threads EXCEPT ![ProcessorThread] = IdleThread]
            /\ result' = Result(StagedMatch.err)
       ELSE /\ threads' = [threads EXCEPT ![ProcessorThread] =
                  [pc |-> "apply_trades", order |-> @.order, before |-> @.before,
                   after |-> @.after, trades |-> StagedMatch.trades]]
            /\ UNCHANGED result
    /\ UNCHANGED <<calls, returned, stagedFrame>>

\* step 6: positions and fees of the trades, the Trade events
ApplyTradesStep ==
    /\ threads[ProcessorThread].pc = "apply_trades"
    /\ Returns(ApplyTrades(Ret(State, "None"), threads[ProcessorThread].trades, 1, 0))
    /\ UNCHANGED <<calls, returned, stagedFrame>>

\* a task takes the read locks of balances, positions and order book, which
\* are free between the steps, and reads them
Observe ==
    /\ Len(returned) < MaxObservations
    /\ returned' = Append(returned,
          [view |-> CoreOf(State),
           before |-> IF threads[ProcessorThread].pc = "idle" THEN CoreOf(State)
                      ELSE threads[ProcessorThread].before,
           after |-> IF threads[ProcessorThread].pc = "idle" THEN CoreOf(State)
                     ELSE threads[ProcessorThread].after])
    /\ UNCHANGED <<procVars, threads, result, calls, stagedFrame>>

NextStaged == ReserveStep \/ AddOrderStep \/ MatchStep \/ ApplyTradesStep \/ Observe

SpecStaged == InitLiquidation /\ [][NextStaged]_vars

\* C35: a task that holds the read locks never sees a partially applied
\* event: what it reads of accounts, positions and order book is the state
\* before the event being processed or the state after it.
C35_EventsSeenWhole ==
    \A i \in 1..Len(returned) : returned[i].view \in {returned[i].before, returned[i].after}

(***************************************************************************)
(* KafkaEventProducer::produce step by step, called by two tasks that      *)
(* share the producer: the fetch_add of the sequence counter, then the     *)
(* attempts of produce_with_retry, each of which the broker accepts or     *)
(* refuses.                                                                *)
(***************************************************************************)
max_retries == 5
MaxProduceCalls == 3

producerFrame == <<last_sequence, last_mark_price, halted, KILL_SWITCH, accounts,
                   positions, order_book, matcher_book, queue, rl_count,
                   insurance_fund, kill_switch, loop, ev, calls, replay, matchVars,
                   HLC, returned, ticks, auxVars>>

\* produce, lines 77-84: the sequence is taken and written into the event
FetchAdd(t) ==
    /\ threads[t].pc = "idle"
    /\ sequence_counter < MaxProduceCalls
    /\ \E pl \in CancelPayloads :
         threads' = [threads EXCEPT ![t] =
            [pc |-> "send", attempt |-> 0,
             event |-> [with_payload("OrderCancel", pl) EXCEPT
                           !.sequence = AssignedSequence(sequence_counter)]]]
    /\ sequence_counter' = sequence_counter + 1
    /\ UNCHANGED <<log, result, producerFrame>>

\* one round of the loop of produce_with_retry whose send succeeds
SendOk(t) ==
    /\ threads[t].pc = "send"
    /\ threads[t].attempt < max_retries
    /\ log' = Append(log, threads[t].event)
    /\ threads' = [threads EXCEPT ![t] = IdleThread]
    /\ result' = Result("Ok")
    /\ UNCHANGED <<sequence_counter, producerFrame>>

\* one round whose send fails: Err after the last attempt, else another round
SendErr(t) ==
    /\ threads[t].pc = "send"
    /\ threads[t].attempt < max_retries
    /\ IF threads[t].attempt + 1 >= max_retries
       THEN /\ threads' = [threads EXCEPT ![t] = IdleThread]
            /\ result' = Result("KafkaError")
       ELSE /\ threads' = [threads EXCEPT ![t].attempt = @ + 1]
            /\ UNCHANGED result
    /\ UNCHANGED <<log, sequence_counter, producerFrame>>

NextProducer ==
    \/ \E t \in Threads : FetchAdd(t)
    \/ \E t \in Threads : SendOk(t)
    \/ \E t \in Threads : SendErr(t)

SpecProducer == Init /\ [][NextProducer]_vars

NoProduceRunning == \A t \in Threads : threads[t].pc = "idle"

\* C36: the events of the log carry distinct sequence numbers in increasing
\* order, and once no produce is running they are the contiguous numbers
\* 0, 1, 2, ... that the consumer expects, whether produce was called
\* concurrently or a send failed after all retries; no produce makes more
\* than max_retries attempts.
C36_LogSequencesContiguous ==
    /\ \A i, j \in 1..Len(log) : i < j => log[i].sequence < log[j].sequence
    /\ NoProduceRunning => \A i \in 1..Len(log) : log[i].sequence = i - 1
    /\ \A t \in Threads : threads[t].pc = "send" => threads[t].attempt < max_retries

\* C37: an event built by BaseEvent::with_payload and appended by produce
\* passes verify_checksum when main's loop hands it to process_event,
\* whatever sequence number produce has assigned to it.
C37_ChecksumSurvivesLog ==
    [][(replay = "ingest" /\ calls' = calls + 1) => verify_checksum(log[calls + 1])]_vars

\* C38: in every reachable state the signed position sizes of all users sum
\* to zero: a trade, also one made when a liquidation order is matched
\* against the book, moves the positions of its two counterparties by equal
\* and opposite quantities.
C38_PositionsSumToZero ==
    SeqSum([i \in 1..Cardinality(Users) |-> PositionOf(i).size]) = 0

(***************************************************************************)
(* The topic read by main's loop and written by two parties: the clients,  *)
(* whose OrderSubmit events are appended to it, and the processor itself,  *)
(* whose process_order_submit appends a Trade event for every trade.  The  *)
(* loop hands the entries to process_event in the order of the topic, each *)
(* with the next sequence number and a checksum that verifies.             *)
(***************************************************************************)
MaxTopicOrders == 2

TopicOrders == SelectSeq(log, LAMBDA e : e.event_type = "OrderSubmit")

\* a client's order reaches the topic
AppendSubmit ==
    /\ Len(TopicOrders) < MaxTopicOrders
    /\ \E o \in RateSubmits : log' = Append(log, with_payload("OrderSubmit", o))
    /\ UNCHANGED <<last_sequence, last_mark_price, halted, KILL_SWITCH, accounts,
                   positions, order_book, matcher_book, queue, rl_count,
                   insurance_fund, sequence_counter, kill_switch, loop, ev, result,
                   calls, replay, matchVars, taskVars>>

\* the entry of the topic that fetch_next_event returns next
NextTopicEvent ==
    MakeEvent(last_sequence + 1, <<log[calls + 1].event_type, log[calls + 1].payload>>,
              TRUE)

ConsumeNext ==
    /\ loop = "running"
    /\ calls < Len(log)
    /\ Ingested(NextTopicEvent, process_event(State, NextTopicEvent, NoEnv))
    /\ UNCHANGED replay

NextTopic == AppendSubmit \/ ConsumeNext

SpecTopic == InitLiquidation /\ [][NextTopic]_vars

MaxSnapshotCalls == 3
MaxSnapshots == 2
SnapshotChannelCapacity == 1

snapshotFrame == <<replay, matchVars, HLC, ticks, circuit_breaker, locks>>

LoopProcessed(event, r) ==
    /\ SetState(r.s)
    /\ ev' = [sequence |-> event.sequence, valid |-> verify_checksum(event)]
    /\ result' = r.result
    /\ calls' = calls + 1
    /\ IF r.result.kind # "Ok" /\ is_fatal_error(r.result.kind)
       THEN kill_switch' = TRUE /\ loop' = "stopped"
       ELSE UNCHANGED <<kill_switch, loop>>
    /\ threads' = IF r.result.kind = "Ok"
                  THEN [threads EXCEPT ![ProcessorThread] = [pc |-> "try_send"]]
                  ELSE threads

\* the event loop: process_event on the next event
LoopProcess ==
    /\ loop = "running"
    /\ threads[ProcessorThread].pc = "idle"
    /\ calls < MaxSnapshotCalls
    /\ \E pl \in RateSubmits :
         LoopProcessed(MakeEvent(last_sequence + 1, <<"OrderSubmit", pl>>, TRUE),
                       process_event(State,
                                     MakeEvent(last_sequence + 1, <<"OrderSubmit", pl>>, TRUE),
                                     NoEnv))
    /\ UNCHANGED <<returned, snapshot_seq, snapshotFrame>>

\* the event loop: snapshot_seq_tx.try_send(last_sequence), dropped when full
LoopTrySend ==
    /\ threads[ProcessorThread].pc = "try_send"
    /\ snapshot_seq' = IF Len(snapshot_seq) < SnapshotChannelCapacity
                       THEN Append(snapshot_seq, last_sequence)
                       ELSE snapshot_seq
    /\ threads' = [threads EXCEPT ![ProcessorThread] = IdleThread]
    /\ UNCHANGED <<procVars, kill_switch, loop, ev, result, calls, returned,
                   snapshotFrame>>

\* snapshot_seq_rx.try_recv().unwrap_or(0)
ReceivedSequence == IF snapshot_seq = <<>> THEN 0 ELSE Head(snapshot_seq)

\* one round of the snapshot task, with the price that its receiver holds
SnapshotCreator ==
    /\ Len(returned) < MaxSnapshots
    /\ \E mark_price \in Prices :
         returned' = Append(returned,
                            create_snapshot(ReceivedSequence, accounts, positions,
                                            mark_price))
    /\ snapshot_seq' = IF snapshot_seq = <<>> THEN <<>> ELSE Tail(snapshot_seq)
    /\ UNCHANGED <<procVars, kill_switch, loop, ev, result, calls, threads,
                   snapshotFrame>>

NextSnapshot == LoopProcess \/ LoopTrySend \/ SnapshotCreator

SpecSnapshot == InitLiquidation /\ [][NextSnapshot]_vars

\* C40: a snapshot records as its sequence the processor's last_sequence at
\* the moment its accounts and positions were read, under every interleaving
\* with the event loop.
C40_SnapshotSequenceIsCurrent ==
    [][returned' # returned =>
          returned'[Len(returned')].sequence = last_sequence]_vars

====
